---- MODULE Spec2Model ----
(***************************************************************************)
(* A model of the LeadGen storage, cache, scoring and AI-enrichment code.  *)
(*                                                                         *)
(* Python values are tagged records [t |-> type, v |-> payload] so that    *)
(* None, str, int, bool, list and dict values can live in one field and be *)
(* compared.  Text is a TLA+ string; Len, SubSeq and \o act on it          *)
(* character by character.                                                 *)
(***************************************************************************)
EXTENDS Integers, Sequences, FiniteSets, TLC

VARIABLES
    companies,      \* rows of the companies table, in rowid order
    nextId,         \* the AUTOINCREMENT counter of the companies table
    cache,          \* rows of the cache table: key -> [value, created_at]
    now,            \* wall clock, in ticks of 1/TicksPerSecond second
    CACHE_ENABLED,  \* config.CACHE_ENABLED, fixed when the process starts
    llm_calls,      \* the number of requests sent to the language model
    rec,            \* the pipeline's in-memory company mapping
    company,        \* the last Company object built by Company.from_dict
    scored,         \* the last call of a scoring variant: input and result
    current_year,   \* datetime.now().year
    search_history, \* rows of the search_history table, in rowid order
    exports,        \* rows of the exports table, in rowid order
    run,            \* one run of main(): its position, the connection, the exit
    click,          \* one call of safe_click: attempts made and the result
    scrape,         \* one search_businesses call: the loop's local variables
    last            \* the last call made: operation, arguments, result

vars == <<companies, nextId, cache, now, CACHE_ENABLED, llm_calls, rec, company,
          scored, current_year, search_history, exports, run, click, scrape, last>>

-----------------------------------------------------------------------------
(* Python values *)

None == [t |-> "NoneType", v |-> 0]

PyStr(s) == [t |-> "str", v |-> s]

PyInt(n) == [t |-> "int", v |-> n]

PyBool(b) == [t |-> "bool", v |-> b]

PyList(xs) == [t |-> "list", v |-> xs]

\* a dict is its sequence of <<key, value>> items in insertion order
PyDict(items) == [t |-> "dict", v |-> items]

\* the test "x is not None" in the place of "if x:"
TruthyNotNone(x) == x.t # "NoneType"

\* bool(x) of the value kinds the program tests with "if x:"
Truthy(x) ==
    CASE x.t = "NoneType" -> FALSE
      [] x.t = "str" -> x.v # ""
      [] x.t = "int" -> x.v # 0
      [] x.t = "bool" -> x.v
      [] x.t = "list" -> Len(x.v) > 0
      [] x.t = "dict" -> Len(x.v) > 0
      [] OTHER -> TRUE

\* a mapping, or a keyed table, that holds nothing
NoRows == [k \in {} |-> None]

\* mapping.get(key): a mapping is a function from its keys to values
Get(m, key) == IF key \in DOMAIN m THEN m[key] ELSE None

\* mapping.get(key, default)
GetOr(m, key, default) == IF key \in DOMAIN m THEN m[key] ELSE default

\* int(x) truncates a quotient toward zero
TruncDiv(x, d) == IF x >= 0 THEN x \div d ELSE -((-x) \div d)

Min(a, b) == IF a < b THEN a ELSE b

-----------------------------------------------------------------------------
(* The companies table *)

\* the columns of the companies table besides id
Columns ==
    {"name", "address", "city", "state", "zipcode", "phone", "email", "website",
     "category", "building_size", "year_built", "description", "source",
     "lead_score", "ai_analysis", "contact_person", "contact_title",
     "contact_email", "contact_phone", "scraped_at", "notes"}

MaxRows == 2

\* SQL "a = b": NULL never compares equal
SqlEq(a, b) == a # None /\ b # None /\ a = b

\* the lookup with its two parameters bound in the wrong order
SelectExistingSwapped(name, city) ==
    {i \in 1..Len(companies) :
        SqlEq(companies[i]["name"], city) /\ SqlEq(companies[i]["city"], name)}

\* SELECT id FROM companies WHERE name = ? AND city = ?  (fetchone)
SelectExisting(name, city) ==
    {i \in 1..Len(companies) :
        SqlEq(companies[i]["name"], name) /\ SqlEq(companies[i]["city"], city)}

\* the id of the row an INSERT creates: the one given, else the next rowid
NewId(company_data) ==
    IF Get(company_data, "id") # None THEN company_data["id"].v ELSE nextId

\* the row INSERT INTO companies (columns) VALUES (...) creates; scraped_at
\* has the column default CURRENT_TIMESTAMP
NewRow(company_data) ==
    [c \in Columns \cup {"id"} |->
        IF c = "id" THEN PyInt(NewId(company_data))
        ELSE IF c = "scraped_at" /\ c \notin DOMAIN company_data THEN PyInt(now)
        ELSE Get(company_data, c)]

\* the row rewritten from the field set alone, as a REPLACE would
ReplacedRow(row, update_data) ==
    [c \in DOMAIN row |-> IF c = "id" THEN row[c] ELSE Get(update_data, c)]

\* the row UPDATE companies SET key = ? ... leaves
PatchedRow(row, update_data) ==
    [c \in DOMAIN row |-> IF c \in DOMAIN update_data THEN update_data[c] ELSE row[c]]

\* the first element of a set of positions
FirstOf(S) == CHOOSE i \in S : \A j \in S : i <= j

\* the mappings callers pass to insert_company: any non-empty subset of the
\* keys, a key holding None, and a mapping with a key that is no column
InsertKeys == {"name", "city", "lead_score"}

InsertValues(k) ==
    CASE k = "name" -> {None, PyStr("Acme")}
      [] k = "city" -> {PyStr("Dayton"), PyStr("Akron")}
      [] k = "lead_score" -> {PyInt(60)}

InsertRecords ==
    UNION {{r \in [K -> UNION {InsertValues(k) : k \in K}] :
               \A k \in K : r[k] \in InsertValues(k)} : K \in SUBSET InsertKeys \ {{}}}
    \cup {[name |-> PyStr("Bolt"), city |-> PyStr("Akron"), rating |-> PyStr("4.5")]}

\* the field sets callers pass to update_company
UpdateKeys == {"name", "city", "lead_score"}

UpdateValues(k) ==
    CASE k = "name" -> {PyStr("Acme")}
      [] k = "city" -> {PyStr("Dayton")}
      [] k = "lead_score" -> {PyInt(70)}

UpdatePatches ==
    UNION {{r \in [K -> UNION {UpdateValues(k) : k \in K}] :
               \A k \in K : r[k] \in UpdateValues(k)} : K \in SUBSET UpdateKeys}

\* sqlite3.Error raised by the statement: no column list, or an unknown column
SqlRejects(data) == DOMAIN data = {} \/ ~(DOMAIN data \subseteq Columns \cup {"id"})

\* sqlite3.IntegrityError: the INSERT names an id that a row already has
IdTaken(company_data) ==
    \E i \in 1..Len(companies) : companies[i]["id"] = Get(company_data, "id")

\* Database.insert_company: the table, the rowid counter and the value returned
InsertEffect(company_data) ==
    LET existing == SelectExisting(Get(company_data, "name"), Get(company_data, "city"))
    IN  IF existing # {}
        THEN [companies |-> companies, nextId |-> nextId,
              ret |-> companies[FirstOf(existing)]["id"]]
        ELSE IF SqlRejects(company_data) \/ IdTaken(company_data)
        THEN [companies |-> companies, nextId |-> nextId, ret |-> None]
        ELSE [companies |-> Append(companies, NewRow(company_data)),
              nextId |-> (IF NewId(company_data) >= nextId
                          THEN NewId(company_data) + 1 ELSE nextId),
              ret |-> PyInt(NewId(company_data))]

\* Database.update_company: the table and the value returned
UpdateEffect(company_id, update_data) ==
    IF SqlRejects(update_data)
    THEN [companies |-> companies, ret |-> PyBool(FALSE)]
    ELSE [companies |-> [i \in 1..Len(companies) |->
                            IF companies[i]["id"] = PyInt(company_id)
                            THEN PatchedRow(companies[i], update_data)
                            ELSE companies[i]],
          ret |-> PyBool(\E i \in 1..Len(companies) :
                            companies[i]["id"] = PyInt(company_id))]

InsertCompany(company_data) ==
    /\ Len(InsertEffect(company_data).companies) <= MaxRows
    /\ companies' = InsertEffect(company_data).companies
    /\ nextId' = InsertEffect(company_data).nextId
    /\ last' = [op |-> "insert_company", arg |-> company_data,
                ret |-> InsertEffect(company_data).ret]
    /\ UNCHANGED <<run, click, scrape, search_history, exports, cache, now, CACHE_ENABLED, llm_calls, rec, company, scored,
                   current_year>>

UpdateCompany(company_id, update_data) ==
    /\ companies' = UpdateEffect(company_id, update_data).companies
    /\ last' = [op |-> "update_company", id |-> company_id, arg |-> update_data,
                ret |-> UpdateEffect(company_id, update_data).ret]
    /\ UNCHANGED <<run, click, scrape, search_history, exports, nextId, cache, now, CACHE_ENABLED, llm_calls, rec, company, scored,
                   current_year>>

NoCall == [op |-> "none"]

\* main(), safe_click or search_businesses not called
NotRun == [pc |-> "none"]

\* the state Database.__init__ leaves: DB_INIT_SQL creates empty tables
InitStore ==
    /\ companies = <<>>
    /\ search_history = <<>>
    /\ run = NotRun
    /\ click = NotRun
    /\ scrape = NotRun
    /\ exports = <<>>
    /\ nextId = 1
    /\ cache = NoRows
    /\ now = 0
    /\ CACHE_ENABLED = TRUE
    /\ llm_calls = 0
    /\ rec = NoRows
    /\ company = None
    /\ scored = NoCall
    /\ current_year = 2026
    /\ last = NoCall

NextStore ==
    \/ \E company_data \in InsertRecords : InsertCompany(company_data)
    \/ \E company_id \in 1..MaxRows, update_data \in UpdatePatches :
           UpdateCompany(company_id, update_data)

SpecStore == InitStore /\ [][NextStore]_vars

-----------------------------------------------------------------------------
(* Text: characters, whitespace, digits *)

CharAt(s, i) == IF i >= 1 /\ i <= Len(s) THEN SubSeq(s, i, i) ELSE ""

StartsWith(s, i, lit) ==
    i + Len(lit) - 1 <= Len(s) /\ SubSeq(s, i, i + Len(lit) - 1) = lit

IsWs(c) == c \in {" ", "\t", "\n", "\r"}

RECURSIVE SkipWs(_, _)
\* the first position from i on that holds no whitespace
SkipWs(s, i) == IF IsWs(CharAt(s, i)) THEN SkipWs(s, i + 1) ELSE i

Digits == "0123456789"

IsDigit(c) == \E d \in 1..10 : SubSeq(Digits, d, d) = c

DigitValue(c) == (CHOOSE d \in 1..10 : SubSeq(Digits, d, d) = c) - 1

RECURSIVE DigitsEnd(_, _)
\* the first position from i on that holds no digit
DigitsEnd(s, i) == IF IsDigit(CharAt(s, i)) THEN DigitsEnd(s, i + 1) ELSE i

RECURSIVE DecimalValue(_)
\* the number a string of digits denotes
DecimalValue(d) ==
    IF d = "" THEN 0
    ELSE 10 * DecimalValue(SubSeq(d, 1, Len(d) - 1)) + DigitValue(CharAt(d, Len(d)))

-----------------------------------------------------------------------------
(* json.dumps and json.loads *)

PyFloat(literal) == [t |-> "float", v |-> literal]

RECURSIVE JsonEscape(_)
JsonEscape(s) ==
    IF s = "" THEN ""
    ELSE LET c == CharAt(s, 1)
             e == CASE c = "\"" -> "\\\""
                    [] c = "\\" -> "\\\\"
                    [] c = "\n" -> "\\n"
                    [] c = "\t" -> "\\t"
                    [] c = "\r" -> "\\r"
                    [] OTHER -> c
         IN  e \o JsonEscape(SubSeq(s, 2, Len(s)))

RECURSIVE Dumps(_), DumpsItems(_), DumpsMembers(_)
\* json.dumps(value) with the default separators
Dumps(x) ==
    CASE x.t = "NoneType" -> "null"
      [] x.t = "bool" -> IF x.v THEN "true" ELSE "false"
      [] x.t = "int" -> ToString(x.v)
      [] x.t = "float" -> x.v
      [] x.t = "str" -> "\"" \o JsonEscape(x.v) \o "\""
      [] x.t = "list" -> "[" \o DumpsItems(x.v) \o "]"
      [] x.t = "dict" -> "{" \o DumpsMembers(x.v) \o "}"

DumpsItems(xs) ==
    IF Len(xs) = 0 THEN ""
    ELSE IF Len(xs) = 1 THEN Dumps(xs[1])
    ELSE Dumps(xs[1]) \o ", " \o DumpsItems(Tail(xs))

DumpsMembers(items) ==
    IF Len(items) = 0 THEN ""
    ELSE LET m == "\"" \o JsonEscape(items[1][1]) \o "\": " \o Dumps(items[1][2])
         IN  IF Len(items) = 1 THEN m ELSE m \o ", " \o DumpsMembers(Tail(items))

\* a scan result: whether a value was read, the value, the position after it
Fail == [ok |-> FALSE, val |-> None, pos |-> 0]

Ok(v, p) == [ok |-> TRUE, val |-> v, pos |-> p]

Unescape(e) ==
    CASE e = "n" -> "\n"
      [] e = "t" -> "\t"
      [] e = "r" -> "\r"
      [] OTHER -> e

RECURSIVE ScanString(_, _, _)
\* the string literal whose opening quote precedes position j
ScanString(s, j, acc) ==
    LET c == CharAt(s, j)
    IN  IF j > Len(s) \/ c \in {"\n", "\t", "\r"} THEN Fail
        ELSE IF c = "\"" THEN Ok(PyStr(acc), j + 1)
        ELSE IF c = "\\"
        THEN IF CharAt(s, j + 1) \in {"\"", "\\", "/", "n", "t", "r"}
             THEN ScanString(s, j + 2, acc \o Unescape(CharAt(s, j + 1)))
             ELSE Fail
        ELSE ScanString(s, j + 1, acc \o c)

\* the number read from i: j is after the sign, k after the integer part,
\* e after the exponent; without fraction and exponent it is an int
NumberOf(s, i, j, k, e) ==
    IF k = j THEN Fail
    ELSE IF e = k
    THEN Ok(PyInt((IF j > i THEN -1 ELSE 1) * DecimalValue(SubSeq(s, j, k - 1))), k)
    ELSE Ok(PyFloat(SubSeq(s, i, e - 1)), e)

\* the end of the exponent ([eE][-+]?\d+)? at f, whose digits start at x
ExponentEnd(s, f, x) ==
    IF CharAt(s, f) \in {"e", "E"} /\ DigitsEnd(s, x) > x THEN DigitsEnd(s, x) ELSE f

\* f is the position after the fraction
ScanExponent(s, i, j, k, f) ==
    NumberOf(s, i, j, k,
             ExponentEnd(s, f, IF CharAt(s, f + 1) \in {"+", "-"} THEN f + 2 ELSE f + 1))

\* the fraction (\.\d+)? at k
ScanFraction(s, i, j, k) ==
    ScanExponent(s, i, j, k,
                 IF CharAt(s, k) = "." /\ DigitsEnd(s, k + 1) > k + 1
                 THEN DigitsEnd(s, k + 1) ELSE k)

\* the integer part (0|[1-9]\d*) at j
ScanInteger(s, i, j) ==
    ScanFraction(s, i, j, IF CharAt(s, j) = "0" THEN j + 1 ELSE DigitsEnd(s, j))

\* the number literal at position i: -?(0|[1-9]\d*)(\.\d+)?([eE][-+]?\d+)?
ScanNumber(s, i) == ScanInteger(s, i, IF CharAt(s, i) = "-" THEN i + 1 ELSE i)

RECURSIVE ScanValue(_, _), ScanItems(_, _, _), ScanMembers(_, _, _)

\* after the item r of an array, at position j: a comma and the next item,
\* or the closing bracket
ItemsNext(s, acc, r, j) ==
    IF CharAt(s, j) = "," THEN ScanItems(s, j + 1, Append(acc, r.val))
    ELSE IF CharAt(s, j) = "]" THEN Ok(PyList(Append(acc, r.val)), j + 1)
    ELSE Fail

ItemsAfter(s, acc, r) ==
    IF ~r.ok THEN Fail ELSE ItemsNext(s, acc, r, SkipWs(s, r.pos))

\* after the member k: r of an object, at position j: a comma and the next
\* member, or the closing brace
MembersNext(s, acc, k, r, j) ==
    IF CharAt(s, j) = ","
    THEN ScanMembers(s, j + 1, Append(acc, <<k.val.v, r.val>>))
    ELSE IF CharAt(s, j) = "}"
    THEN Ok(PyDict(Append(acc, <<k.val.v, r.val>>)), j + 1)
    ELSE Fail

MembersAfter(s, acc, k, r) ==
    IF ~r.ok THEN Fail ELSE MembersNext(s, acc, k, r, SkipWs(s, r.pos))

\* the colon at c and the value of the member whose key is k
MembersValue(s, acc, k, c) ==
    MembersAfter(s, acc, k, IF CharAt(s, c) = ":" THEN ScanValue(s, c + 1) ELSE Fail)

MembersColon(s, acc, k) ==
    IF ~k.ok THEN Fail ELSE MembersValue(s, acc, k, SkipWs(s, k.pos))

\* the key of a member, a string literal at q
MembersKey(s, acc, q) ==
    MembersColon(s, acc, IF CharAt(s, q) = "\"" THEN ScanString(s, q + 1, "") ELSE Fail)

\* what follows the opening bracket or brace at i, whose first character
\* after whitespace is at j
ScanOpen(s, i, j) ==
    IF CharAt(s, i) = "["
    THEN IF CharAt(s, j) = "]" THEN Ok(PyList(<<>>), j + 1) ELSE ScanItems(s, i + 1, <<>>)
    ELSE IF CharAt(s, j) = "}" THEN Ok(PyDict(<<>>), j + 1) ELSE ScanMembers(s, i + 1, <<>>)

\* the JSON value at position i, which holds no whitespace
ScanAt(s, i) ==
    IF CharAt(s, i) = "\"" THEN ScanString(s, i + 1, "")
    ELSE IF CharAt(s, i) \in {"[", "{"} THEN ScanOpen(s, i, SkipWs(s, i + 1))
    ELSE IF StartsWith(s, i, "null") THEN Ok(None, i + 4)
    ELSE IF StartsWith(s, i, "true") THEN Ok(PyBool(TRUE), i + 4)
    ELSE IF StartsWith(s, i, "false") THEN Ok(PyBool(FALSE), i + 5)
    ELSE IF StartsWith(s, i, "NaN") THEN Ok(PyFloat("NaN"), i + 3)
    ELSE IF StartsWith(s, i, "Infinity") THEN Ok(PyFloat("Infinity"), i + 8)
    ELSE IF StartsWith(s, i, "-Infinity") THEN Ok(PyFloat("-Infinity"), i + 9)
    ELSE IF CharAt(s, i) = "-" \/ IsDigit(CharAt(s, i)) THEN ScanNumber(s, i)
    ELSE Fail

\* the JSON value that starts at position i0, after whitespace
ScanValue(s, i0) == ScanAt(s, SkipWs(s, i0))

ScanItems(s, i, acc) == ItemsAfter(s, acc, ScanValue(s, i))

ScanMembers(s, i, acc) == MembersKey(s, acc, SkipWs(s, i))

\* a scan that ends before the end of the text, up to whitespace, fails
WholeText(text, r) ==
    IF r.ok /\ SkipWs(text, r.pos) = Len(text) + 1 THEN r ELSE Fail

\* json.loads(text): ok is FALSE where it raises json.JSONDecodeError
Loads(text) == WholeText(text, ScanValue(text, 1))

-----------------------------------------------------------------------------
(* The cache table *)

\* config.CACHE_EXPIRY in seconds; the CACHE_EXPIRY environment variable
\* sets it (86400 when unset)
CACHE_EXPIRY == 2

\* the last second the clock reaches
MaxNow == 2

CacheKeys == {"", "a"}

\* values passed to cache_set: plain text, text that is itself JSON, and
\* structured data
CacheValues ==
    {PyStr("hello"), PyStr("123"), PyStr("null"), PyStr("[1]"),
     PyList(<<PyInt(1)>>),
     PyDict(<< <<"lead_score", PyInt(70)>> >>)}

Put(table, key, row) ==
    [k \in DOMAIN table \cup {key} |-> IF k = key THEN row ELSE table[k]]

Remove(table, key) == [k \in DOMAIN table \ {key} |-> table[k]]

\* the expiry test with the boundary second counted as fresh
FreshInclusive(entry) == now <= entry.created_at + CACHE_EXPIRY

\* datetime('now') < datetime(created_at, '+CACHE_EXPIRY seconds')
Fresh(entry) == now < entry.created_at + CACHE_EXPIRY

\* what cache_get hands back for a stored text
DecodeOr(text, parsed) == IF parsed.ok THEN parsed.val ELSE PyStr(text)

Decode(text) == DecodeOr(text, Loads(text))

\* Database.cache_set on a cache table; "passed" remembers the caller's value
\* and is no column
CacheSetIn(table, key, value) ==
    IF ~CACHE_ENABLED
    THEN [cache |-> table, ret |-> PyBool(FALSE)]
    ELSE [cache |-> Put(table, key,
                        [value |-> IF value.t = "str" THEN value.v ELSE Dumps(value),
                         created_at |-> now,
                         passed |-> value]),
          ret |-> PyBool(TRUE)]

\* Database.cache_set
CacheSetEffect(key, value) == CacheSetIn(cache, key, value)

\* Database.cache_get on a cache table
CacheGetIn(table, key) ==
    IF ~CACHE_ENABLED THEN None
    ELSE IF key \notin DOMAIN table \/ ~Fresh(table[key]) THEN None
    ELSE Decode(table[key].value)

\* Database.cache_get
CacheGetResult(key) == CacheGetIn(cache, key)

\* cache_clear without the test of the flag
CacheClearUnguarded(key) ==
    IF Truthy(key)
    THEN [cache |-> Remove(cache, key.v), ret |-> PyBool(TRUE)]
    ELSE [cache |-> NoRows, ret |-> PyBool(TRUE)]

\* Database.cache_clear; key is None when the caller passes no key
CacheClearEffect(key) ==
    IF ~CACHE_ENABLED
    THEN [cache |-> cache, ret |-> PyBool(FALSE)]
    ELSE IF Truthy(key)
    THEN [cache |-> Remove(cache, key.v), ret |-> PyBool(TRUE)]
    ELSE [cache |-> NoRows, ret |-> PyBool(TRUE)]

CacheSet(key, value) ==
    /\ cache' = CacheSetEffect(key, value).cache
    /\ last' = [op |-> "cache_set", key |-> PyStr(key),
                ret |-> CacheSetEffect(key, value).ret]
    /\ UNCHANGED <<run, click, scrape, search_history, exports, companies, nextId, now, CACHE_ENABLED, llm_calls, rec,
                   company, scored, current_year>>

CacheGet(key) ==
    /\ last' = [op |-> "cache_get", key |-> PyStr(key), ret |-> CacheGetResult(key)]
    /\ UNCHANGED <<run, click, scrape, search_history, exports, companies, nextId, cache, now, CACHE_ENABLED, llm_calls, rec,
                   company, scored, current_year>>

CacheClear(key) ==
    /\ cache' = CacheClearEffect(key).cache
    /\ last' = [op |-> "cache_clear", key |-> key, ret |-> CacheClearEffect(key).ret]
    /\ UNCHANGED <<run, click, scrape, search_history, exports, companies, nextId, now, CACHE_ENABLED, llm_calls, rec,
                   company, scored, current_year>>

\* a second passes between two calls
Tick ==
    /\ now < MaxNow
    /\ now' = now + 1
    /\ last' = [op |-> "tick"]
    /\ UNCHANGED <<run, click, scrape, search_history, exports, companies, nextId, cache, CACHE_ENABLED, llm_calls, rec,
                   company, scored, current_year>>

\* the cache tables a process finds when it starts: the database file outlives
\* the process, so the table is empty or holds what an earlier process cached
StoredCaches ==
    {NoRows,
     [k \in {"a"} |-> [value |-> "hello", created_at |-> 0, passed |-> PyStr("hello")]]}

InitCache ==
    /\ companies = <<>>
    /\ search_history = <<>>
    /\ run = NotRun
    /\ click = NotRun
    /\ scrape = NotRun
    /\ exports = <<>>
    /\ nextId = 1
    /\ cache \in StoredCaches
    /\ now = 0
    /\ CACHE_ENABLED \in BOOLEAN
    /\ llm_calls = 0
    /\ rec = NoRows
    /\ company = None
    /\ scored = NoCall
    /\ current_year = 2026
    /\ last = NoCall

NextCache ==
    \/ \E key \in CacheKeys, value \in CacheValues : CacheSet(key, value)
    \/ \E key \in CacheKeys : CacheGet(key)
    \/ \E key \in {PyStr(k) : k \in CacheKeys} \cup {None} : CacheClear(key)
    \/ Tick

SpecCache == InitCache /\ [][NextCache]_vars

-----------------------------------------------------------------------------
(* Text operations of the scoring code *)

UpperLetters == "ABCDEFGHIJKLMNOPQRSTUVWXYZ"

LowerLetters == "abcdefghijklmnopqrstuvwxyz"

LowerChar(c) ==
    IF \E i \in 1..26 : SubSeq(UpperLetters, i, i) = c
    THEN LET i == CHOOSE i \in 1..26 : SubSeq(UpperLetters, i, i) = c
         IN  SubSeq(LowerLetters, i, i)
    ELSE c

RECURSIVE Lower(_)
\* str.lower()
Lower(s) == IF s = "" THEN "" ELSE LowerChar(CharAt(s, 1)) \o Lower(SubSeq(s, 2, Len(s)))

\* needle in hay
Contains(hay, needle) ==
    \E i \in 1..(Len(hay) - Len(needle) + 1) : SubSeq(hay, i, i + Len(needle) - 1) = needle

RECURSIVE StripEnd(_)
StripEnd(s) ==
    IF s # "" /\ IsWs(CharAt(s, Len(s))) THEN StripEnd(SubSeq(s, 1, Len(s) - 1)) ELSE s

\* str.strip()
Strip(s) == StripEnd(SubSeq(s, SkipWs(s, 1), Len(s)))

\* int(text): ok is FALSE where it raises ValueError
ParseInt(text) ==
    LET s == Strip(text)
        j == IF CharAt(s, 1) \in {"+", "-"} THEN 2 ELSE 1
    IN  IF j <= Len(s) /\ DigitsEnd(s, j) = Len(s) + 1
        THEN [ok |-> TRUE,
              val |-> (IF CharAt(s, 1) = "-" THEN -1 ELSE 1) * DecimalValue(SubSeq(s, j, Len(s)))]
        ELSE [ok |-> FALSE, val |-> 0]

\* str(x)
StrOf(x) ==
    CASE x.t = "str" -> x.v
      [] x.t = "int" -> ToString(x.v)
      [] x.t = "NoneType" -> "None"
      [] x.t = "bool" -> IF x.v THEN "True" ELSE "False"

\* the number of texts of a sequence that occur in a text
RECURSIVE CountIn(_, _)
CountIn(keywords, text) ==
    IF Len(keywords) = 0 THEN 0
    ELSE (IF Contains(text, Head(keywords)) THEN 1 ELSE 0) + CountIn(Tail(keywords), text)

\* for keyword in keywords: if keyword in text: ...; break
AnyIn(keywords, text) == \E i \in 1..Len(keywords) : Contains(text, keywords[i])

-----------------------------------------------------------------------------
(* The four scoring variants *)

energy_keywords ==
    <<"energy", "utilities", "building", "property", "office", "commercial",
      "industrial", "manufacturing", "factory", "school", "hospital",
      "hotel", "retail", "restaurant", "mall", "warehouse">>

high_energy_sectors ==
    <<"manufacturing", "industrial", "factory", "warehouse",
      "hospital", "healthcare", "hotel", "lodging", "data center",
      "office building", "school", "university", "retail">>

opportunity_keywords ==
    <<"high energy", "inefficient", "outdated", "saving", "cost reduction",
      "upgrade", "retrofit", "improvement", "consumption", "bill", "expense">>

decision_maker_roles == <<"owner", "ceo", "president", "director", "manager", "facility">>

\* the scorers without their final cap
Uncapped(score) == score

\* return min(score, 100)
Cap(score) == Min(score, 100)

AgePointsInclusive(age) ==
    IF age >= 30 THEN 20 ELSE IF age >= 20 THEN 15 ELSE IF age >= 10 THEN 10 ELSE 0

\* if age > 30: +20 elif age > 20: +15 elif age > 10: +10
AgePoints(age) ==
    IF age > 30 THEN 20 ELSE IF age > 20 THEN 15 ELSE IF age > 10 THEN 10 ELSE 0

\* if 'large' in size_text: ... elif 'medium' ... elif 'small' ...
SizePoints(size_text, large, medium, small) ==
    IF Contains(size_text, "large") THEN large
    ELSE IF Contains(size_text, "medium") THEN medium
    ELSE IF Contains(size_text, "small") THEN small
    ELSE 0

\* the age signal shared by the variants: nothing when int() raises
YearPoints(year_built, year) ==
    IF ParseInt(year_built).ok THEN AgePoints(year - ParseInt(year_built).val) ELSE 0

\* an attribute of a Company object: a field left out holds its default ""
Attr(c, field) == GetOr(c, field, PyStr(""))

\* Company.calculate_lead_score, before the cap
CompanyRaw(c, year) ==
    50
    + (IF Truthy(Attr(c, "year_built")) THEN YearPoints(Attr(c, "year_built").v, year) ELSE 0)
    + (IF Truthy(Attr(c, "building_size"))
       THEN SizePoints(Lower(Attr(c, "building_size").v), 15, 10, 5) ELSE 0)
    + (IF Truthy(Attr(c, "website")) THEN 10 ELSE 0)
    + (IF Truthy(Attr(c, "contact_person")) \/ Truthy(Attr(c, "contact_title")) THEN 10 ELSE 0)
    + (IF Truthy(Attr(c, "email")) \/ Truthy(Attr(c, "phone")) THEN 5 ELSE 0)
    + (IF Truthy(Attr(c, "description")) THEN 5 ELSE 0)
    + (IF Truthy(Attr(c, "category")) /\ AnyIn(energy_keywords, Lower(Attr(c, "category").v))
       THEN 5 ELSE 0)

CompanyScore(c, year) == Cap(CompanyRaw(c, year))

\* BaseScraper.calculate_lead_score, before the cap
BaseRaw(c, year) ==
    50
    + (IF Truthy(Get(c, "year_built")) THEN YearPoints(StrOf(c["year_built"]), year) ELSE 0)
    + (IF Truthy(Get(c, "website")) THEN 10 ELSE 0)
    + (IF Truthy(Get(c, "contact_person")) \/ Truthy(Get(c, "contact_title")) THEN 10 ELSE 0)
    + (IF Truthy(Get(c, "email")) \/ Truthy(Get(c, "phone")) THEN 5 ELSE 0)
    + (IF Truthy(Get(c, "description")) THEN 5 ELSE 0)
    + (IF Truthy(Get(c, "building_size"))
       THEN SizePoints(Lower(StrOf(c["building_size"])), 15, 10, 5) ELSE 0)
    + Min(3 * CountIn(energy_keywords,
                      Lower(StrOf(GetOr(c, "description", PyStr("")))) \o " "
                      \o Lower(StrOf(GetOr(c, "category", PyStr(""))))),
          15)

BaseScore(c, year) == Cap(BaseRaw(c, year))

\* GoogleMapsScraper.calculate_lead_score, before the cap
GoogleMapsRaw(c, year) ==
    50
    + (IF Truthy(Get(c, "website")) THEN 10 ELSE 0)
    + (IF Truthy(Get(c, "address")) THEN 10 ELSE 0)
    + (IF Truthy(Get(c, "phone")) THEN 5 ELSE 0)
    + (IF Truthy(Get(c, "description")) THEN 5 ELSE 0)
    + (IF Truthy(Get(c, "category")) /\ AnyIn(energy_keywords, Lower(c["category"].v))
       THEN 10 ELSE 0)

GoogleMapsScore(c, year) == Cap(GoogleMapsRaw(c, year))

\* AILeadFinder._calculate_lead_score, before the cap
AILeadRaw(c, year) ==
    50
    + (IF Truthy(Get(c, "building_size"))
       THEN SizePoints(Lower(StrOf(c["building_size"])), 20, 10, 5) ELSE 0)
    + (IF Truthy(Get(c, "year_built"))
       THEN IF ParseInt(StrOf(c["year_built"])).ok
            THEN AgePoints(year - ParseInt(StrOf(c["year_built"])).val)
            ELSE IF Contains(Lower(StrOf(c["year_built"])), "old")
                    \/ Contains(Lower(StrOf(c["year_built"])), "aging")
                 THEN 15 ELSE 0
       ELSE 0)
    + (IF Truthy(Get(c, "category"))
          /\ AnyIn(high_energy_sectors, Lower(StrOf(c["category"])))
       THEN 15 ELSE 0)
    + (IF Truthy(Get(c, "ai_analysis"))
       THEN Min(3 * CountIn(opportunity_keywords, Lower(StrOf(c["ai_analysis"]))), 15)
       ELSE 0)
    + (IF Truthy(Get(c, "contact_title"))
          /\ AnyIn(decision_maker_roles,
                   Lower(StrOf(GetOr(c, "contact_title", PyStr("")))))
       THEN 10 ELSE 0)

AILeadScore(c, year) == Cap(AILeadRaw(c, year))

\* the texts a field of a scored record takes
Texts(values) == {PyStr(x) : x \in values}

\* the records handed to the scorers: every field is a text, "" when absent
ScoreRecords ==
    [year_built : Texts({"", "1985", "1996", "aging"}),
     building_size : Texts({"", "Large", "small"}),
     website : Texts({"", "acme.test"}),
     contact_person : Texts({""}),
     contact_title : Texts({"", "Facility Manager"}),
     phone : Texts({"", "555"}),
     description : Texts({"", "office retrofit"}),
     category : Texts({"", "bakery", "Manufacturing", "industrial warehouse"}),
     address : Texts({"", "1 Main St"}),
     ai_analysis : Texts({"", "inefficient, outdated: upgrade, retrofit, saving"})]

\* two more records: one with nothing but name, city and state, and one with
\* a large building of 1985, a manufacturing category and a website
ExampleRecords ==
    {[name |-> PyStr("X"), city |-> PyStr("Y"), state |-> PyStr("Z")],
     [name |-> PyStr("Acme"), city |-> PyStr("Dayton"), state |-> PyStr("OH"),
      building_size |-> PyStr("large"), year_built |-> PyStr("1985"),
      category |-> PyStr("manufacturing"), website |-> PyStr("acme.test")]}

\* the last year the clock reaches
MaxYear == 2027

ScoreWith(variant, score) ==
    /\ scored' = [op |-> variant, year |-> current_year, score |-> score]
    /\ UNCHANGED <<run, click, scrape, search_history, exports, companies, nextId, cache, now, CACHE_ENABLED, llm_calls, rec,
                   company, current_year, last>>

CalculateCompany == ScoreWith("Company.calculate_lead_score", CompanyScore(rec, current_year))

CalculateBase == ScoreWith("BaseScraper.calculate_lead_score", BaseScore(rec, current_year))

CalculateGoogleMaps ==
    ScoreWith("GoogleMapsScraper.calculate_lead_score", GoogleMapsScore(rec, current_year))

CalculateAILead ==
    ScoreWith("AILeadFinder._calculate_lead_score", AILeadScore(rec, current_year))

\* datetime.now().year moves on
NewYear ==
    /\ current_year < MaxYear
    /\ current_year' = current_year + 1
    /\ UNCHANGED <<run, click, scrape, search_history, exports, companies, nextId, cache, now, CACHE_ENABLED, llm_calls, rec,
                   company, scored, last>>

InitScore ==
    /\ companies = <<>>
    /\ search_history = <<>>
    /\ run = NotRun
    /\ click = NotRun
    /\ scrape = NotRun
    /\ exports = <<>>
    /\ nextId = 1
    /\ cache = NoRows
    /\ now = 0
    /\ CACHE_ENABLED = TRUE
    /\ llm_calls = 0
    /\ rec \in ScoreRecords \cup ExampleRecords
    /\ company = None
    /\ scored = NoCall
    /\ current_year = 2026
    /\ last = NoCall

NextScore ==
    \/ CalculateCompany
    \/ CalculateBase
    \/ CalculateGoogleMaps
    \/ CalculateAILead
    \/ NewYear

SpecScore == InitScore /\ [][NextScore]_vars

\* records whose year_built is a number: years on both sides of each age
\* threshold of 2026 and 2027, a year to come, and a year between blanks
AgeRecords ==
    [year_built : Texts({"1985", "1995", "1996", "2005", "2006", "2015", "2016",
                         "2017", "2030", " 1996 "}),
     building_size : Texts({"", "Large"}),
     website : Texts({"", "acme.test"})]

InitAge ==
    /\ companies = <<>>
    /\ search_history = <<>>
    /\ run = NotRun
    /\ click = NotRun
    /\ scrape = NotRun
    /\ exports = <<>>
    /\ nextId = 1
    /\ cache = NoRows
    /\ now = 0
    /\ CACHE_ENABLED = TRUE
    /\ llm_calls = 0
    /\ rec \in AgeRecords
    /\ company = None
    /\ scored = NoCall
    /\ current_year = 2026
    /\ last = NoCall

SpecAge == InitAge /\ [][NextScore]_vars

-----------------------------------------------------------------------------
(* Company.from_dict *)

\* the annotated fields of the Company dataclass
CompanyFields == Columns \cup {"id"}

PyDatetime(text) == [t |-> "datetime", v |-> text]

\* datetime.now()
DatetimeNow == PyDatetime("@" \o ToString(now))

AllDigits(s) == s # "" /\ DigitsEnd(s, 1) = Len(s) + 1

\* a text datetime.fromisoformat reads: YYYY-MM-DD, optionally followed by a
\* separator, HH:MM:SS and a +HH:MM offset
IsIsoFormat(s) ==
    /\ Len(s) \in {10, 19, 25}
    /\ AllDigits(SubSeq(s, 1, 4)) /\ CharAt(s, 5) = "-"
    /\ AllDigits(SubSeq(s, 6, 7)) /\ CharAt(s, 8) = "-"
    /\ AllDigits(SubSeq(s, 9, 10))
    /\ DecimalValue(SubSeq(s, 6, 7)) \in 1..12
    /\ DecimalValue(SubSeq(s, 9, 10)) \in 1..28
    /\ Len(s) >= 19 =>
           /\ AllDigits(SubSeq(s, 12, 13)) /\ CharAt(s, 14) = ":"
           /\ AllDigits(SubSeq(s, 15, 16)) /\ CharAt(s, 17) = ":"
           /\ AllDigits(SubSeq(s, 18, 19))
           /\ DecimalValue(SubSeq(s, 12, 13)) < 24
           /\ DecimalValue(SubSeq(s, 15, 16)) < 60
           /\ DecimalValue(SubSeq(s, 18, 19)) < 60
    /\ Len(s) = 25 =>
           /\ CharAt(s, 20) \in {"+", "-"}
           /\ AllDigits(SubSeq(s, 21, 22)) /\ CharAt(s, 23) = ":"
           /\ AllDigits(SubSeq(s, 24, 25))

RECURSIVE ReplaceZ(_)
\* text.replace('Z', '+00:00')
ReplaceZ(s) ==
    IF s = "" THEN ""
    ELSE (IF CharAt(s, 1) = "Z" THEN "+00:00" ELSE CharAt(s, 1)) \o ReplaceZ(SubSeq(s, 2, Len(s)))

\* the value from_dict stores for a key of the input mapping
Converted(data, k) ==
    IF k = "scraped_at" /\ data[k].t = "str"
    THEN IF IsIsoFormat(ReplaceZ(data[k].v)) THEN PyDatetime(ReplaceZ(data[k].v)) ELSE DatetimeNow
    ELSE IF k = "lead_score" /\ data[k].t = "str"
    THEN IF ParseInt(data[k].v).ok THEN PyInt(ParseInt(data[k].v).val) ELSE PyInt(50)
    ELSE data[k]

\* the default of a Company field
FieldDefault(k) ==
    CASE k = "id" -> None
      [] k = "lead_score" -> PyInt(50)
      [] k = "scraped_at" -> DatetimeNow
      [] OTHER -> PyStr("")

Raised(exception) == [t |-> "raised", v |-> exception]

\* Company.from_dict: the object built, or the TypeError of cls(**filtered_data)
\* when a required field is left out
FromDictResult(data) ==
    IF ~({"name", "city", "state"} \subseteq DOMAIN data)
    THEN Raised("TypeError")
    ELSE [t |-> "Company",
          v |-> [k \in CompanyFields |->
                    IF k \in DOMAIN data THEN Converted(data, k) ELSE FieldDefault(k)]]

FromDict(data) ==
    /\ company' = FromDictResult(data)
    /\ last' = [op |-> "from_dict", arg |-> data]
    /\ UNCHANGED <<run, click, scrape, search_history, exports, companies, nextId, cache, now, CACHE_ENABLED, llm_calls, rec,
                   scored, current_year>>

\* the mappings handed to Company.from_dict: every subset of the keys of a
\* mapping with texts and numbers for the score, texts for the timestamp and
\* a key that is no field
FromDictInputs ==
    LET full == [name : {PyStr("Acme")}, city : {PyStr("Dayton")}, state : {PyStr("OH")},
                 lead_score : {PyStr("85"), PyStr("abc"), PyStr("150"), PyInt(70)},
                 scraped_at : {PyStr("2026-01-02T03:04:05Z"), PyStr("2026-01-02"),
                               PyStr("yesterday")},
                 rating : {PyStr("4.5")}]
    IN  {[k \in K |-> r[k]] :
            r \in full,
            K \in SUBSET {"name", "city", "state", "lead_score", "scraped_at", "rating"}}

InitNormalize ==
    /\ companies = <<>>
    /\ search_history = <<>>
    /\ run = NotRun
    /\ click = NotRun
    /\ scrape = NotRun
    /\ exports = <<>>
    /\ nextId = 1
    /\ cache = NoRows
    /\ now = 0
    /\ CACHE_ENABLED = TRUE
    /\ llm_calls = 0
    /\ rec = NoRows
    /\ company = None
    /\ scored = NoCall
    /\ current_year = 2026
    /\ last = NoCall

NextNormalize ==
    \/ \E data \in FromDictInputs : FromDict(data)
    \/ Tick

SpecNormalize == InitNormalize /\ [][NextNormalize]_vars

-----------------------------------------------------------------------------
(* AIAnalyzer.analyze_company and the pipeline around it *)

\* config.AI_ENABLED: an OPENAI_API_KEY is configured
AI_ENABLED == TRUE

\* the most requests the language model is sent
MaxLlmCalls == 2

\* f"ai_analysis_{company.get('id', '')}_{company.get('name')}_{company.get('city')}"
AnalysisKey(c) ==
    "ai_analysis_" \o StrOf(GetOr(c, "id", PyStr(""))) \o "_" \o StrOf(Get(c, "name"))
    \o "_" \o StrOf(Get(c, "city"))

\* where the digits start if (?:score|rating):\s*(\d+) matches at position i
\* of the text s, whose lower-case form is low; 0 if it does not
ScoreDigitsAt(s, low, i) ==
    LET w == IF StartsWith(low, i, "score") THEN 5
             ELSE IF StartsWith(low, i, "rating") THEN 6 ELSE 0
        j == SkipWs(s, i + w + 1)
    IN  IF w > 0 /\ CharAt(s, i + w) = ":" /\ DigitsEnd(s, j) > j THEN j ELSE 0

\* re.search(r'(?:score|rating):\s*(\d+)', text, re.IGNORECASE): whether it
\* matches, and int(group(1)) of the leftmost match
ScoreSearch(text) ==
    LET low == Lower(text)
        starts == {i \in 1..Len(text) : ScoreDigitsAt(text, low, i) > 0}
        j == ScoreDigitsAt(text, low, FirstOf(starts))
    IN  IF starts = {} THEN [found |-> FALSE, score |-> 0]
        ELSE [found |-> TRUE,
              score |-> DecimalValue(SubSeq(text, j, DigitsEnd(text, j) - 1))]

\* the blend with the two scores added and not halved
BlendSum(original_score, ai_lead_score) == original_score + ai_lead_score

\* int((original_score + ai_lead_score) / 2)
Blend(original_score, ai_lead_score) == TruncDiv(original_score + ai_lead_score, 2)

\* for key, value in cached_analysis.items(): company[key] = value
RECURSIVE PutAll(_, _)
PutAll(c, items) ==
    IF Len(items) = 0 THEN c
    ELSE PutAll(Put(c, Head(items)[1], Head(items)[2]), Tail(items))

\* what follows the request to the language model: the record with the
\* answer merged in, or raised when the request raises or when
\* original_score + ai_lead_score is no sum of integers
Analysed(c, response) ==
    LET m == ScoreSearch(response.v)
        original_score == GetOr(c, "lead_score", PyInt(50))
    IN  IF response.t = "raised" THEN [raised |-> TRUE, company |-> c]
        ELSE IF m.found /\ original_score.t # "int" THEN [raised |-> TRUE, company |-> c]
        ELSE [raised |-> FALSE,
              company |-> Put(IF m.found
                              THEN Put(c, "lead_score",
                                       PyInt(Blend(original_score.v, m.score)))
                              ELSE c,
                              "ai_analysis", response)]

\* the answers of the language model: texts, or the request raising
Responses ==
    {PyStr("Score: 80"), PyStr("rating:  150"), PyStr("n/a"), Raised("APIError")}

\* AIAnalyzer.analyze_company; response is what the language model would answer
AnalyzeCompany(response) ==
    LET cache_key == AnalysisKey(rec)
        cached_analysis == CacheGetResult(cache_key)
        hit == Truthy(cached_analysis) /\ cached_analysis.t \in {"dict", "str"}
        analysed == Analysed(rec, response)
    IN  /\ AI_ENABLED /\ ~hit => llm_calls < MaxLlmCalls
        /\ IF ~AI_ENABLED
           THEN UNCHANGED <<rec, cache, llm_calls>>
           ELSE IF hit
           THEN /\ rec' = IF cached_analysis.t = "dict"
                          THEN PutAll(rec, cached_analysis.v)
                          ELSE Put(rec, "ai_analysis", cached_analysis)
                /\ UNCHANGED <<cache, llm_calls>>
           ELSE /\ llm_calls' = llm_calls + 1
                /\ IF analysed.raised
                   THEN UNCHANGED <<rec, cache>>
                   ELSE /\ rec' = analysed.company
                        /\ cache' = CacheSetEffect(cache_key,
                               PyDict(<< <<"ai_analysis", response>>,
                                         <<"lead_score",
                                           Get(analysed.company, "lead_score")>> >>)).cache
        /\ last' = [op |-> "analyze_company",
                    response |-> response,
                    called |-> AI_ENABLED /\ ~hit,
                    raised |-> AI_ENABLED /\ ~hit /\ analysed.raised,
                    original_score |-> GetOr(rec, "lead_score", PyInt(50))]
        /\ UNCHANGED <<run, click, scrape, search_history, exports, companies, nextId, now, CACHE_ENABLED, company, scored,
                       current_year>>

\* BaseScraper.add_source_info, as the scrapers apply it to each record found
AddSourceInfo(source_name) ==
    /\ rec' = LET c == IF "source" \notin DOMAIN rec
                       THEN Put(rec, "source", PyStr(source_name)) ELSE rec
              IN  IF "lead_score" \notin DOMAIN c
                  THEN Put(c, "lead_score", PyInt(BaseScore(c, current_year))) ELSE c
    /\ last' = [op |-> "add_source_info"]
    /\ UNCHANGED <<run, click, scrape, search_history, exports, companies, nextId, cache, now, CACHE_ENABLED, llm_calls, company,
                   scored, current_year>>

\* LeadFinder.find_leads stores a record: self.db.insert_company(company)
StoreRecord ==
    /\ Len(InsertEffect(rec).companies) <= MaxRows
    /\ companies' = InsertEffect(rec).companies
    /\ nextId' = InsertEffect(rec).nextId
    /\ last' = [op |-> "insert_company", arg |-> rec, ret |-> InsertEffect(rec).ret]
    /\ UNCHANGED <<run, click, scrape, search_history, exports, cache, now, CACHE_ENABLED, llm_calls, rec, company, scored,
                   current_year>>

\* AILeadFinder.research_company stores a record and keeps the identity:
\* company_id = self.db.insert_company(company); if company_id: company['id'] = company_id
StoreRecordKeepId ==
    /\ Len(InsertEffect(rec).companies) <= MaxRows
    /\ companies' = InsertEffect(rec).companies
    /\ nextId' = InsertEffect(rec).nextId
    /\ rec' = IF Truthy(InsertEffect(rec).ret)
              THEN Put(rec, "id", InsertEffect(rec).ret) ELSE rec
    /\ last' = [op |-> "insert_company", arg |-> rec, ret |-> InsertEffect(rec).ret]
    /\ UNCHANGED <<run, click, scrape, search_history, exports, cache, now, CACHE_ENABLED, llm_calls, company, scored, current_year>>

\* LeadFinder.find_leads writes the enrichment back:
\* if company.get('id'): self.db.update_company(company['id'], {...})
WriteBack ==
    LET update_data == [k \in {"ai_analysis", "lead_score"} |-> Get(rec, k)]
    IN  /\ IF Truthy(Get(rec, "id"))
           THEN /\ companies' = UpdateEffect(rec["id"].v, update_data).companies
                /\ last' = [op |-> "update_company", id |-> rec["id"].v,
                            arg |-> update_data,
                            ret |-> UpdateEffect(rec["id"].v, update_data).ret]
           ELSE /\ UNCHANGED companies
                /\ last' = [op |-> "no_update"]
        /\ UNCHANGED <<run, click, scrape, search_history, exports, nextId, cache, now, CACHE_ENABLED, llm_calls, rec, company,
                       scored, current_year>>

\* the records the scrapers hand to the pipeline, before add_source_info
ScrapedRecords ==
    {[name |-> PyStr("Acme"), city |-> PyStr("Dayton"), website |-> PyStr("acme.test")]}

\* the mappings handed to Company.from_dict in the pipeline
ScoreTexts ==
    {[name |-> PyStr("Acme"), city |-> PyStr("Dayton"), state |-> PyStr("OH"),
      lead_score |-> PyStr(x)] : x \in {"85", "150"}}

InitEnrich ==
    /\ companies = <<>>
    /\ search_history = <<>>
    /\ run = NotRun
    /\ click = NotRun
    /\ scrape = NotRun
    /\ exports = <<>>
    /\ nextId = 1
    /\ cache = NoRows
    /\ now = 0
    /\ CACHE_ENABLED \in BOOLEAN
    /\ llm_calls = 0
    /\ rec \in ScrapedRecords
    /\ company = None
    /\ scored = NoCall
    /\ current_year = 2026
    /\ last = NoCall

\* a scraped record is given its source and score and is analysed, any number
\* of times, as the clock advances
NextEnrich ==
    \/ AddSourceInfo("YellowPagesScraper")
    \/ \E response \in Responses : AnalyzeCompany(response)
    \/ Tick

SpecEnrich == InitEnrich /\ [][NextEnrich]_vars

\* the record is also stored, normalised and written back
NextPipeline ==
    \/ NextEnrich
    \/ StoreRecord
    \/ StoreRecordKeepId
    \/ WriteBack
    \/ \E data \in ScoreTexts : FromDict(data)

SpecPipeline == InitEnrich /\ [][NextPipeline]_vars

-----------------------------------------------------------------------------
(* AILeadFinder.find_potential_leads *)

\* mapping.get(key, default) of a dict held as its items
DictGet(d, key, default) ==
    LET hits == {i \in 1..Len(d.v) : d.v[i][1] = key}
    IN  IF hits = {} THEN default
        ELSE d.v[CHOOSE i \in hits : \A j \in hits : j <= i][2]

\* re.search(r'\[\s*\{.*\}\s*\]', text, re.DOTALL).group(0): the leftmost "["
\* followed by "{", up to the last "}" that a "]" follows; found is FALSE
\* when nothing matches
LeadsArrayMatch(text) ==
    LET Closes(i) == {j \in (SkipWs(text, i + 1) + 1)..Len(text) :
                         CharAt(text, j) = "}" /\ CharAt(text, SkipWs(text, j + 1)) = "]"}
        starts == {i \in 1..Len(text) :
                      /\ CharAt(text, i) = "["
                      /\ CharAt(text, SkipWs(text, i + 1)) = "{"
                      /\ Closes(i) # {}}
        i0 == FirstOf(starts)
        j0 == CHOOSE j \in Closes(i0) : \A k \in Closes(i0) : k <= j
    IN  IF starts = {} THEN [found |-> FALSE, text |-> ""]
        ELSE [found |-> TRUE, text |-> SubSeq(text, i0, SkipWs(text, j0 + 1))]

\* the company mapping built from one lead of the answer, lead_score included
LeadCompany(lead, city, state) ==
    LET reason == DictGet(lead, "reason", PyStr(""))
        items == << <<"name", DictGet(lead, "name", PyStr(""))>>,
                    <<"category", DictGet(lead, "category", PyStr(""))>>,
                    <<"building_size", DictGet(lead, "size", PyStr(""))>>,
                    <<"city", PyStr(city)>>,
                    <<"state", PyStr(state)>>,
                    <<"contact_title", DictGet(lead, "contact_title", PyStr(""))>>,
                    <<"description", reason>>,
                    <<"notes", DictGet(lead, "approach", PyStr(""))>>,
                    <<"source", PyStr("AI Generated")>>,
                    <<"ai_analysis", reason>> >>
    IN  PyDict(Append(items,
                      <<"lead_score",
                        PyInt(AILeadScore(PutAll(NoRows, items), current_year))>>))

\* self.db.insert_company(company) on the table as the loop has left it
InsertLead(table, nid, c) ==
    IF \E i \in 1..Len(table) :
           SqlEq(table[i]["name"], Get(c, "name")) /\ SqlEq(table[i]["city"], Get(c, "city"))
    THEN [companies |-> table, nextId |-> nid]
    ELSE [companies |-> Append(table,
                               [col \in Columns \cup {"id"} |->
                                   IF col = "id" THEN PyInt(nid)
                                   ELSE IF col = "scraped_at" THEN PyInt(now)
                                   ELSE Get(c, col)]),
          nextId |-> nid + 1]

RECURSIVE LeadsLoop(_, _, _, _, _, _)
\* for lead in ai_generated_leads: build, score, append, insert; a lead that
\* is no mapping raises AttributeError after the earlier leads were stored
LeadsLoop(items, city, state, table, nid, leads) ==
    IF Len(items) = 0
    THEN [raised |-> FALSE, leads |-> leads, companies |-> table, nextId |-> nid]
    ELSE IF Head(items).t # "dict"
    THEN [raised |-> TRUE, leads |-> leads, companies |-> table, nextId |-> nid]
    ELSE LET c == LeadCompany(Head(items), city, state)
             stored == InsertLead(table, nid, PutAll(NoRows, c.v))
         IN  LeadsLoop(Tail(items), city, state, stored.companies, stored.nextId,
                       Append(leads, c))

\* _extract_leads_from_text of a text that holds nothing but whitespace: the
\* only section is blank and is skipped
ExtractLeadsFromBlank(text) == <<>>

\* what follows the answer of the language model: the leads, the table and
\* whether the loop raised
FoundLeads(city, state, response_text) ==
    LET m == LeadsArrayMatch(response_text)
        parsed == Loads(IF m.found THEN m.text ELSE response_text)
    IN  IF ~parsed.ok
        THEN [raised |-> Strip(response_text) # "",
              leads |-> ExtractLeadsFromBlank(response_text),
              companies |-> companies, nextId |-> nextId]
        ELSE IF parsed.val.t # "list"
        THEN [raised |-> TRUE, leads |-> <<>>, companies |-> companies, nextId |-> nextId]
        ELSE LeadsLoop(parsed.val.v, city, state, companies, nextId, <<>>)

\* the answers of the language model to the request for leads
LeadResponses ==
    {PyStr("[]"),
     PyStr("Leads: [ {\"name\": \"Acme\", \"size\": \"large\", \"reason\": \"old bill\"} ]"),
     PyStr(" "),
     Raised("APIError")}

\* AILeadFinder.find_potential_leads; response is what the language model
\* would answer
FindPotentialLeads(city, state, industry, response) ==
    LET cache_key == "ai_leads_" \o city \o "_" \o state \o "_"
                     \o (IF Truthy(industry) THEN industry.v ELSE "all")
        cached_leads == CacheGetResult(cache_key)
        hit == Truthy(cached_leads)
        found == FoundLeads(city, state, response.v)
        failed == response.t = "raised" \/ found.raised
    IN  /\ AI_ENABLED /\ ~hit => llm_calls < MaxLlmCalls
        /\ AI_ENABLED /\ ~hit /\ response.t # "raised"
               => Len(found.companies) <= MaxRows
        /\ IF ~AI_ENABLED \/ hit
           THEN UNCHANGED <<companies, nextId, cache, llm_calls>>
           ELSE /\ llm_calls' = llm_calls + 1
                /\ IF response.t = "raised"
                   THEN UNCHANGED <<companies, nextId, cache>>
                   ELSE /\ companies' = found.companies
                        /\ nextId' = found.nextId
                        /\ cache' = IF found.raised THEN cache
                                    ELSE CacheSetEffect(cache_key, PyList(found.leads)).cache
        /\ last' = [op |-> "find_potential_leads",
                    key |-> cache_key,
                    called |-> AI_ENABLED /\ ~hit,
                    ret |-> IF ~AI_ENABLED THEN PyList(<<>>)
                            ELSE IF hit THEN cached_leads
                            ELSE IF failed THEN PyList(<<>>)
                            ELSE PyList(found.leads)]
        /\ UNCHANGED <<run, click, scrape, search_history, exports, now, CACHE_ENABLED, rec, company, scored, current_year>>

InitLeads ==
    /\ companies = <<>>
    /\ search_history = <<>>
    /\ run = NotRun
    /\ click = NotRun
    /\ scrape = NotRun
    /\ exports = <<>>
    /\ nextId = 1
    /\ cache = NoRows
    /\ now = 0
    /\ CACHE_ENABLED \in BOOLEAN
    /\ llm_calls = 0
    /\ rec = NoRows
    /\ company = None
    /\ scored = NoCall
    /\ current_year = 2026
    /\ last = NoCall

NextLeads ==
    \/ \E industry \in {None, PyStr("retail")}, response \in LeadResponses :
           FindPotentialLeads("Dayton", "OH", industry, response)
    \/ Tick

SpecLeads == InitLeads /\ [][NextLeads]_vars

-----------------------------------------------------------------------------
(* BaseScraper.get_business_details_batch *)

\* the order in which a scraped mapping holds its keys
FieldOrder ==
    <<"name", "address", "city", "state", "zipcode", "phone", "email", "website",
      "category", "building_size", "year_built", "description", "source",
      "lead_score">>

RECURSIVE ItemsIn(_, _)
\* mapping.items(), the keys taken in the order above
ItemsIn(m, order) ==
    IF Len(order) = 0 THEN <<>>
    ELSE (IF Head(order) \in DOMAIN m THEN << <<Head(order), m[Head(order)]>> >> ELSE <<>>)
         \o ItemsIn(m, Tail(order))

\* f"company_details_{self.source_name}_{name}_{city}_{state}"
DetailsKey(source_name, c) ==
    "company_details_" \o source_name \o "_" \o StrOf(Get(c, "name")) \o "_"
    \o StrOf(Get(c, "city")) \o "_" \o StrOf(Get(c, "state"))

\* the handler of an item's exception that drops the item
DropOnError(results, c) == results

\* except Exception: results.append(company)
KeepOnError(results, c) == Append(results, c)

\* what get_business_details does with a record: it returns it with the
\* details of the page, returns it as it is, or raises
FetchOutcomes == {"details", "nothing", "raises"}

\* the record get_business_details returns
Detailed(c, outcome) ==
    IF outcome = "details" THEN Put(c, "description", PyStr("office retrofit")) ELSE c

RECURSIVE DetailsLoop(_, _, _, _, _, _)
\* the loop over the batch: the cache table, the results and how each item
\* was served
DetailsLoop(source_name, items, outcomes, table, results, how) ==
    IF Len(items) = 0 THEN [cache |-> table, results |-> results, how |-> how]
    ELSE LET c == Head(items)
             cache_key == DetailsKey(source_name, c)
             cached_details == CacheGetIn(table, cache_key)
             detailed_company == Detailed(c, Head(outcomes))
         IN  IF Truthy(cached_details)
             THEN IF cached_details.t = "dict"
                  THEN DetailsLoop(source_name, Tail(items), Tail(outcomes), table,
                                   Append(results, PutAll(c, cached_details.v)),
                                   Append(how, "cached"))
                  ELSE DetailsLoop(source_name, Tail(items), Tail(outcomes), table,
                                   KeepOnError(results, c), Append(how, "raised"))
             ELSE IF Head(outcomes) = "raises"
             THEN DetailsLoop(source_name, Tail(items), Tail(outcomes), table,
                              KeepOnError(results, c), Append(how, "raised"))
             ELSE DetailsLoop(source_name, Tail(items), Tail(outcomes),
                              CacheSetIn(table, cache_key,
                                         PyDict(ItemsIn(detailed_company, FieldOrder))).cache,
                              Append(results, detailed_company), Append(how, "fetched"))

\* the lists search_businesses hands to the batch: none, two records, and
\* the same record twice
Batches ==
    LET acme == [name |-> PyStr("Acme"), city |-> PyStr("Dayton"), state |-> PyStr("OH")]
        bolt == [name |-> PyStr("Bolt"), city |-> PyStr("Akron"), state |-> PyStr("OH")]
    IN  {<<>>, <<acme, bolt>>, <<bolt, acme>>, <<acme, acme>>}

\* BaseScraper.get_business_details_batch
GetBusinessDetailsBatch(source_name, batch, outcomes) ==
    LET done == DetailsLoop(source_name, batch, outcomes, cache, <<>>, <<>>)
    IN  /\ cache' = done.cache
        /\ last' = [op |-> "get_business_details_batch", arg |-> batch,
                    outcomes |-> outcomes, how |-> done.how, ret |-> done.results]
        /\ UNCHANGED <<run, click, scrape, search_history, exports, companies, nextId, now, CACHE_ENABLED, llm_calls, rec, company,
                       scored, current_year>>

\* the cache tables a scraper finds: empty, or with a text under a details
\* key that is no mapping
DetailsCaches ==
    {NoRows,
     [k \in {"company_details_YellowPagesScraper_Bolt_Akron_OH"} |->
         [value |-> "[1]", created_at |-> 0, passed |-> PyList(<<PyInt(1)>>)]]}

InitDetails ==
    /\ companies = <<>>
    /\ search_history = <<>>
    /\ run = NotRun
    /\ click = NotRun
    /\ scrape = NotRun
    /\ exports = <<>>
    /\ nextId = 1
    /\ cache \in DetailsCaches
    /\ now = 0
    /\ CACHE_ENABLED \in BOOLEAN
    /\ llm_calls = 0
    /\ rec = NoRows
    /\ company = None
    /\ scored = NoCall
    /\ current_year = 2026
    /\ last = NoCall

NextDetails ==
    \/ \E batch \in Batches : \E outcomes \in [1..Len(batch) -> FetchOutcomes] :
           GetBusinessDetailsBatch("YellowPagesScraper", batch, outcomes)
    \/ Tick

SpecDetails == InitDetails /\ [][NextDetails]_vars

-----------------------------------------------------------------------------
(* Database.get_companies *)

\* SQL "a < b" in ORDER BY: NULL sorts below every number
SqlBelow(a, b) ==
    \/ a = None /\ b # None
    \/ a.t = "int" /\ b.t = "int" /\ a.v < b.v

\* column LIKE '%value%': the text holds the value, letters compared without
\* case; NULL matches nothing
SqlLike(field, value) ==
    field.t = "str" /\ Contains(Lower(field.v), Lower(StrOf(value)))

\* the WHERE clause get_companies builds from the filters; other keys add
\* no condition
Matches(row, filters) ==
    \A key \in DOMAIN filters :
        CASE key = "id" -> SqlEq(row["id"], filters[key])
          [] key = "city" -> SqlLike(row["city"], filters[key])
          [] key = "state" -> SqlEq(row["state"], filters[key])
          [] key = "category" -> SqlLike(row["category"], filters[key])
          [] key = "min_lead_score" ->
                 row["lead_score"].t = "int" /\ filters[key].t = "int"
                 /\ row["lead_score"].v >= filters[key].v
          [] key = "name" -> SqlLike(row["name"], filters[key])
          [] OTHER -> TRUE

\* ORDER BY lead_score DESC, scraped_at DESC puts row a before row b
OrderedBefore(a, b) ==
    \/ SqlBelow(b["lead_score"], a["lead_score"])
    \/ /\ ~SqlBelow(a["lead_score"], b["lead_score"])
       /\ SqlBelow(b["scraped_at"], a["scraped_at"])

\* the orders in which the statement may return the matching rows: rows the
\* ORDER BY does not tell apart come in either order
SelectOrders(filters) ==
    LET hits == {i \in 1..Len(companies) : Matches(companies[i], filters)}
        n == Cardinality(hits)
    IN  {p \in [1..n -> hits] :
            /\ \A i, j \in 1..n : i # j => p[i] # p[j]
            /\ \A i, j \in 1..n :
                   i < j => ~OrderedBefore(companies[p[j]], companies[p[i]])}

\* Database.get_companies: LIMIT ? OFFSET ? of the ordered rows, as mappings
GetCompanies(limit, offset, filters) ==
    /\ \E p \in SelectOrders(filters) :
           last' = [op |-> "get_companies", limit |-> limit, offset |-> offset,
                    filters |-> filters,
                    ret |-> [i \in 1..Min(limit, IF Len(p) > offset THEN Len(p) - offset ELSE 0)
                                |-> companies[p[offset + i]]]]
    /\ UNCHANGED <<run, click, scrape, search_history, exports, companies, nextId, cache, now, CACHE_ENABLED,
                   llm_calls, rec, company, scored, current_year>>

\* the filters callers pass: none, a score threshold, a part of a city name
ReadFilters ==
    {NoRows, [min_lead_score |-> PyInt(60)], [city |-> PyStr("day")]}

NextRead ==
    \/ NextStore
    \/ \E limit \in {1, 100}, offset \in {0, 1}, filters \in ReadFilters :
           GetCompanies(limit, offset, filters)

SpecRead == InitStore /\ [][NextRead]_vars

-----------------------------------------------------------------------------
(* Database.count_companies *)

\* the WHERE clause count_companies builds from the filters: its chain has
\* the keys city, state, category and min_lead_score; other keys add no
\* condition
CountMatches(row, filters) ==
    \A key \in DOMAIN filters :
        CASE key = "city" -> SqlLike(row["city"], filters[key])
          [] key = "state" -> SqlEq(row["state"], filters[key])
          [] key = "category" -> SqlLike(row["category"], filters[key])
          [] key = "min_lead_score" ->
                 row["lead_score"].t = "int" /\ filters[key].t = "int"
                 /\ row["lead_score"].v >= filters[key].v
          [] OTHER -> TRUE

\* Database.count_companies: SELECT COUNT(*) of the rows the clause keeps
CountCompanies(filters) ==
    /\ last' = [op |-> "count_companies", filters |-> filters,
                ret |-> PyInt(Cardinality({i \in 1..Len(companies) :
                                              CountMatches(companies[i], filters)}))]
    /\ UNCHANGED <<run, click, scrape, search_history, exports, companies, nextId, cache, now, CACHE_ENABLED,
                   llm_calls, rec, company, scored, current_year>>

\* the filters of ReadFilters and the two keys only get_companies knows
CountFilters ==
    ReadFilters \cup {[id |-> PyInt(1)], [name |-> PyStr("bolt")],
                      [city |-> PyStr("day"), name |-> PyStr("acme")]}

NextCount ==
    \/ NextStore
    \/ \E filters \in CountFilters : GetCompanies(100, 0, filters)
    \/ \E filters \in CountFilters : CountCompanies(filters)

SpecCount == InitStore /\ [][NextCount]_vars

-----------------------------------------------------------------------------
(* Storage failures: sqlite3.Error raised inside a Database method *)

\* where the storage layer fails: at cursor.execute, so that the statement has
\* no effect, or at self.conn.commit(), so that the statement's effect stays
\* in the connection's open transaction; no handler rolls back.  The tables
\* of the model are what the connection reads and what its next commit
\* makes permanent.
StorageFaults == {"execute", "commit"}

\* Database.insert_company when the storage layer fails
InsertEffectFailing(company_data, fault) ==
    LET done == InsertEffect(company_data)
    IN  IF fault = "execute"
        THEN [companies |-> companies, nextId |-> nextId, ret |-> None]
        ELSE IF Len(done.companies) = Len(companies)
        THEN done
        ELSE [companies |-> done.companies, nextId |-> done.nextId, ret |-> None]

\* Database.update_company when the storage layer fails
UpdateEffectFailing(company_id, update_data, fault) ==
    LET done == UpdateEffect(company_id, update_data)
    IN  IF fault = "execute" \/ SqlRejects(update_data)
        THEN [companies |-> companies, ret |-> PyBool(FALSE)]
        ELSE [companies |-> done.companies, ret |-> PyBool(FALSE)]

InsertCompanyFailing(company_data, fault) ==
    /\ Len(InsertEffectFailing(company_data, fault).companies) <= MaxRows
    /\ companies' = InsertEffectFailing(company_data, fault).companies
    /\ nextId' = InsertEffectFailing(company_data, fault).nextId
    /\ last' = [op |-> "insert_company", arg |-> company_data, fault |-> fault,
                ret |-> InsertEffectFailing(company_data, fault).ret]
    /\ UNCHANGED <<run, click, scrape, search_history, exports, cache, now, CACHE_ENABLED, llm_calls, rec, company, scored,
                   current_year>>

UpdateCompanyFailing(company_id, update_data, fault) ==
    /\ companies' = UpdateEffectFailing(company_id, update_data, fault).companies
    /\ last' = [op |-> "update_company", id |-> company_id, arg |-> update_data,
                fault |-> fault,
                ret |-> UpdateEffectFailing(company_id, update_data, fault).ret]
    /\ UNCHANGED <<run, click, scrape, search_history, exports, nextId, cache, now, CACHE_ENABLED, llm_calls, rec, company, scored,
                   current_year>>

NextFaults ==
    \/ NextStore
    \/ \E company_data \in InsertRecords, fault \in StorageFaults :
           InsertCompanyFailing(company_data, fault)
    \/ \E company_id \in 1..MaxRows, update_data \in UpdatePatches, fault \in StorageFaults :
           UpdateCompanyFailing(company_id, update_data, fault)

SpecFaults == InitStore /\ [][NextFaults]_vars

-----------------------------------------------------------------------------
(* The search_history and exports tables *)

\* the most rows a history table is given
MaxHistory == 2

\* a statement that leaves the new row alone in the table
ReplaceRows(table, row) == <<row>>

\* INSERT INTO table (...) VALUES (?, ?, ?): the table with the new row; the
\* rowid is the next one and the timestamp column defaults to the clock
AppendRow(table, row) == Append(table, row)

\* Database.record_search
RecordSearch(search_type, search_term, results_count) ==
    /\ Len(search_history) < MaxHistory
    /\ search_history' =
           AppendRow(search_history,
                     [id |-> Len(search_history) + 1, search_type |-> search_type,
                      search_term |-> search_term, results_count |-> results_count,
                      searched_at |-> now])
    /\ last' = [op |-> "record_search", ret |-> PyInt(Len(search_history) + 1)]
    /\ UNCHANGED <<run, click, scrape, exports, companies, nextId, cache, now, CACHE_ENABLED, llm_calls, rec,
                   company, scored, current_year>>

\* Database.record_export
RecordExport(export_type, file_path, record_count) ==
    /\ Len(exports) < MaxHistory
    /\ exports' =
           AppendRow(exports,
                     [id |-> Len(exports) + 1, export_type |-> export_type,
                      file_path |-> file_path, record_count |-> record_count,
                      exported_at |-> now])
    /\ last' = [op |-> "record_export", ret |-> PyInt(Len(exports) + 1)]
    /\ UNCHANGED <<run, click, scrape, search_history, companies, nextId, cache, now, CACHE_ENABLED,
                   llm_calls, rec, company, scored, current_year>>

\* searches and exports are recorded while the cache is written and cleared
NextHistory ==
    \/ \E results_count \in {0, 3} :
           RecordSearch("YellowPages", "retail in Dayton, OH", results_count)
    \/ \E export_type \in {"csv", "hubspot_csv"} : RecordExport(export_type, "out.csv", 3)
    \/ CacheSet("a", PyStr("hello"))
    \/ \E key \in {PyStr("a"), None} : CacheClear(key)
    \/ Tick

SpecHistory == InitCache /\ [][NextHistory]_vars

-----------------------------------------------------------------------------
(* Claims about the companies table, checked under SpecStore *)

\* the positions of the rows holding the pair (name, city), None included
RowsWithPair(table, name, city) ==
    {i \in 1..Len(table) : table[i]["name"] = name /\ table[i]["city"] = city}

\* C1: two successive insert_company calls with the same (name, city) pair,
\* a missing or None name or city included, return the same identity and
\* leave exactly one row holding that pair.
C1_InsertTwiceSameIdentity ==
    [][(/\ last.op = "insert_company"
        /\ last'.op = "insert_company"
        /\ Get(last'.arg, "name") = Get(last.arg, "name")
        /\ Get(last'.arg, "city") = Get(last.arg, "city"))
       => (/\ last'.ret = last.ret
           /\ Cardinality(RowsWithPair(companies', Get(last'.arg, "name"),
                                       Get(last'.arg, "city"))) = 1)]_vars

\* C2: no two rows of the companies table hold the same (name, city) pair.
C2_NoDuplicatePair ==
    \A i, j \in 1..Len(companies) :
        (companies[i]["name"] = companies[j]["name"]
         /\ companies[i]["city"] = companies[j]["city"]) => i = j

-----------------------------------------------------------------------------
(* Claims about the cache, checked under SpecCache *)

\* C3: with caching enabled, a cache_get of a key whose entry is neither
\* cleared nor expired returns a value equal to the one passed to the
\* key's latest cache_set.
C3_CacheRoundTrip ==
    (/\ last.op = "cache_get"
     /\ CACHE_ENABLED
     /\ last.key.v \in DOMAIN cache
     /\ now < cache[last.key.v].created_at + CACHE_EXPIRY)
    => last.ret = cache[last.key.v].passed

\* C4: cache_get returns None for a key with no entry and for a key whose
\* latest cache_set is CACHE_EXPIRY seconds old or older; whenever it returns
\* a value, the key has an entry, now < created_at + CACHE_EXPIRY holds and
\* the value is the decoded stored text.
C4_CacheExpiry ==
    last.op = "cache_get" =>
        /\ last.key.v \notin DOMAIN cache => last.ret = None
        /\ (/\ last.key.v \in DOMAIN cache
            /\ now - cache[last.key.v].created_at >= CACHE_EXPIRY) => last.ret = None
        /\ last.ret # None =>
               /\ last.key.v \in DOMAIN cache
               /\ now < cache[last.key.v].created_at + CACHE_EXPIRY
               /\ last.ret = Decode(cache[last.key.v].value)

\* a cache_get of an entry exactly CACHE_EXPIRY seconds old was a miss
C4_Witness ==
    /\ last.op = "cache_get"
    /\ CACHE_ENABLED
    /\ last.key.v \in DOMAIN cache
    /\ now = cache[last.key.v].created_at + CACHE_EXPIRY
    /\ last.ret = None

\* C5: with caching enabled, cache_clear(key) with a string key, the empty
\* string included, removes that key's entry and changes no other entry;
\* cache_clear() without a key removes every entry.
C5_CacheClearFrame ==
    [][(last'.op = "cache_clear" /\ CACHE_ENABLED) =>
          IF last'.key = None
          THEN cache' = NoRows
          ELSE cache' = Remove(cache, last'.key.v)]_vars

-----------------------------------------------------------------------------
(* Claims about the scoring variants, checked under SpecScore *)

\* the uncapped sum of the variant that produced the last score
RawOfScored ==
    CASE scored.op = "Company.calculate_lead_score" -> CompanyRaw(rec, scored.year)
      [] scored.op = "BaseScraper.calculate_lead_score" -> BaseRaw(rec, scored.year)
      [] scored.op = "GoogleMapsScraper.calculate_lead_score" -> GoogleMapsRaw(rec, scored.year)
      [] scored.op = "AILeadFinder._calculate_lead_score" -> AILeadRaw(rec, scored.year)

\* C6: every scoring variant returns an integer between 0 and 100.
C6_ScoreInRange ==
    scored.op # "none" => (scored.score \in Int /\ 0 <= scored.score /\ scored.score <= 100)

\* a variant scored a record whose signals add up to more than 100
C6_Witness ==
    /\ scored.op # "none"
    /\ RawOfScored > 100
    /\ scored.score = 100

-----------------------------------------------------------------------------
(* Claims about the AI enrichment, checked under SpecEnrich *)

\* the analysis asked the language model, whose answer carried a score
ScoreSupplied(call) ==
    /\ call.op = "analyze_company"
    /\ call.called
    /\ call.response.t = "str"
    /\ ScoreSearch(call.response.v).found

HeldScores ==
    {Get(rec, "lead_score")}
    \cup (IF company.t = "Company" THEN {company.v["lead_score"]} ELSE {})
    \cup {companies[i]["lead_score"] : i \in 1..Len(companies)}

\* C8: every integer lead_score held by a record or by a stored row is
\* between 0 and 100, whatever sequence of normalisation, insert, analysis and
\* update steps went before.
C8_LeadScoreInRange ==
    \A x \in HeldScores : x.t = "int" => (0 <= x.v /\ x.v <= 100)

\* C9: a second analyze_company of the same record, answered with the same
\* external score as the first, leaves the lead_score the first call left,
\* whether it is served from the cache or asks the language model again.
C9_ReanalysisIdempotent ==
    [][(/\ last.op = "analyze_company"
        /\ ~last.raised
        /\ last'.op = "analyze_company"
        /\ last'.response = last.response
        /\ last.response.t = "str"
        /\ ScoreSearch(last.response.v).found)
       => Get(rec', "lead_score") = Get(rec, "lead_score")]_vars

\* C11: with CACHE_ENABLED false, cache_set and cache_clear return False,
\* cache_get returns None, and none of them changes the cache table, whatever
\* it holds.
C11_DisabledCacheIsNoOp ==
    [][(~CACHE_ENABLED /\ last'.op \in {"cache_set", "cache_get", "cache_clear"})
       => /\ cache' = cache
          /\ last'.op \in {"cache_set", "cache_clear"} => last'.ret = PyBool(FALSE)
          /\ last'.op = "cache_get" => last'.ret = None]_vars

\* with caching disabled a cache_clear was refused while the table held an
\* entry
C11_Witness ==
    /\ ~CACHE_ENABLED
    /\ last.op = "cache_clear"
    /\ last.ret = PyBool(FALSE)
    /\ cache # NoRows

-----------------------------------------------------------------------------
(* Claims about the calls that go through the cache, checked under SpecLeads *)

\* C12: while a non-expired entry exists for the cache key, whatever value it
\* holds, a call that goes through the cache sends no request to the
\* language model.
C12_FreshEntryMeansNoCall ==
    [][(/\ last'.op = "find_potential_leads"
        /\ CACHE_ENABLED
        /\ last'.key \in DOMAIN cache
        /\ Fresh(cache[last'.key]))
       => (~last'.called /\ llm_calls' = llm_calls)]_vars

-----------------------------------------------------------------------------
(* Claims about the detail batch, checked under SpecDetails *)

\* C13: get_business_details_batch returns a list as long as its input and in
\* its order; an item whose cache lookup or detail fetch raised comes back as
\* the record that was passed in, and the items after it are still served.
C13_BatchNeverAborts ==
    last.op = "get_business_details_batch" =>
        /\ Len(last.ret) = Len(last.arg)
        /\ \A i \in 1..Len(last.arg) :
               /\ i <= Len(last.ret) => last.ret[i]["name"] = last.arg[i]["name"]
               /\ (i <= Len(last.how) /\ last.how[i] = "raised") => last.ret[i] = last.arg[i]
               /\ (i <= Len(last.how) /\ last.how[i] = "fetched")
                      => last.ret[i] = Detailed(last.arg[i], last.outcomes[i])

\* the first item of a batch raised and the second was fetched
C13_Witness ==
    /\ last.op = "get_business_details_batch"
    /\ Len(last.arg) = 2
    /\ last.how = <<"raised", "fetched">>
    /\ last.ret[1] = last.arg[1]
    /\ "description" \in DOMAIN last.ret[2]

-----------------------------------------------------------------------------
(* Claims about storage failures, checked under SpecFaults *)

\* the value a Database method returns when it fails
FailureSentinel(op) ==
    CASE op = "insert_company" -> None
      [] op = "update_company" -> PyBool(FALSE)

\* C14: a call in which the storage layer failed returns its failure sentinel
\* and leaves the store as it was before the call.
C14_FailureLeavesStore ==
    [][(/\ last'.op \in {"insert_company", "update_company"}
        /\ "fault" \in DOMAIN last'
        /\ last'.ret = FailureSentinel(last'.op))
       => companies' = companies]_vars

-----------------------------------------------------------------------------
(* Claims about Company.from_dict, checked under SpecNormalize *)

\* C15: Company.from_dict yields a record for every mapping, also one that
\* omits name, city or state; keys that are no field are ignored, a
\* lead_score text that is no integer becomes 50 and a scraped_at text that
\* is no timestamp becomes the current time.
C15_FromDictNeverRaises ==
    last.op = "from_dict" =>
        /\ company.t = "Company"
        /\ DOMAIN company.v = CompanyFields
        /\ (Get(last.arg, "lead_score").t = "str"
            /\ ~ParseInt(Get(last.arg, "lead_score").v).ok)
               => company.v["lead_score"] = PyInt(50)
        /\ (Get(last.arg, "scraped_at").t = "str"
            /\ ~IsIsoFormat(ReplaceZ(Get(last.arg, "scraped_at").v)))
               => company.v["scraped_at"] = DatetimeNow

-----------------------------------------------------------------------------
(* Further claims about the scoring variants, checked under SpecScore *)

\* C16: two calls of the same scoring variant on records with identical
\* field values return the same score, whenever the calls are made.
C16_ScoreDeterministic ==
    [][(scored.op # "none" /\ scored'.op = scored.op /\ rec' = rec)
       => scored'.score = scored.score]_vars

\* every field of the record but name, city and state is absent or empty
OnlyIdentity(c) == \A k \in DOMAIN c \ {"name", "city", "state"} : c[k] = PyStr("")

\* C17: a record in which only name, city and state are set scores exactly 50
\* under every scoring variant.
C17_EmptyRecordScoresBase ==
    (scored.op # "none" /\ OnlyIdentity(rec)) => scored.score = 50

\* a variant scored the record that holds name, city and state and no other
\* key
C17_Witness ==
    /\ scored.op # "none"
    /\ DOMAIN rec = {"name", "city", "state"}
    /\ scored.score = 50

\* C18: the record with building_size "large", year_built "1985", category
\* "manufacturing", website "acme.test" and no other optional field scores
\* 100 under the Company scorer, the BaseScraper scorer and the AI-lead
\* scorer.
C18_AcmeExampleScores100 ==
    (/\ scored.op \in {"Company.calculate_lead_score", "BaseScraper.calculate_lead_score",
                       "AILeadFinder._calculate_lead_score"}
     /\ Get(rec, "name") = PyStr("Acme")
     /\ Get(rec, "building_size") = PyStr("large"))
    => scored.score = 100

-----------------------------------------------------------------------------
(* Claims about the history tables, checked under SpecHistory *)

\* the table old is the beginning of the table new
IsPrefix(old, new) ==
    Len(old) <= Len(new) /\ \A i \in 1..Len(old) : new[i] = old[i]

\* C19: the search_history and exports tables only grow: every step keeps
\* each row already written, with its values, and at its place.
C19_HistoryAppendOnly ==
    [][IsPrefix(search_history, search_history') /\ IsPrefix(exports, exports')]_vars

\* a second search was recorded after an export and the first search
C19_Witness ==
    /\ last.op = "record_search"
    /\ Len(search_history) = 2
    /\ Len(exports) >= 1

-----------------------------------------------------------------------------
(* Claims about reading rows back, checked under SpecRead *)

\* the columns no insert_company or update_company call of the model supplies
NeverSupplied == Columns \ (InsertKeys \cup UpdateKeys \cup {"scraped_at"})

\* C20: a field of a business record that no caller supplied reads back from
\* get_companies as the empty string, never as None.
C20_OmittedFieldsReadEmpty ==
    last.op = "get_companies" =>
        \A i \in 1..Len(last.ret) : \A c \in NeverSupplied : last.ret[i][c] = PyStr("")

-----------------------------------------------------------------------------
(* main(): one run of the command line program *)

\* run.pc is main's position, run.conn the sqlite3 connection of the
\* Database ("none" before sqlite3.connect), run.exit the exit status
Frame == UNCHANGED <<companies, nextId, cache, now, CACHE_ENABLED, llm_calls, rec,
                     company, scored, current_year, search_history, exports,
                     click, scrape, last>>

\* sys.exit(status), or the interpreter ending after main returns
Exit(status) == run' = [run EXCEPT !.pc = "exited", !.exit = status]

\* args = parse_args(): argparse ends the process with status 2 on bad
\* arguments
ParseArgs(outcome) ==
    /\ run.pc = "start"
    /\ IF outcome = "ok" THEN run' = [run EXCEPT !.pc = "parsed"] ELSE Exit(2)
    /\ Frame

\* self.db = Database(), the first statement of LeadFinder.__init__; init_db
\* ends the process when connect or executescript raises sqlite3.Error
OpenDatabase(outcome) ==
    /\ run.pc = "parsed"
    /\ run' = CASE outcome = "ok" -> [run EXCEPT !.pc = "opened", !.conn = "open"]
                [] outcome = "connect_raises" ->
                       [run EXCEPT !.pc = "exited", !.exit = 1]
                [] outcome = "script_raises" ->
                       [run EXCEPT !.pc = "exited", !.conn = "open", !.exit = 1]
    /\ Frame

\* the rest of LeadFinder.__init__: Exporter(self.db) runs os.makedirs,
\* which may raise OSError; the user may interrupt.  Both leave main's outer
\* try, whose handlers call sys.exit without a close
Construct(outcome) ==
    /\ run.pc = "opened"
    /\ CASE outcome = "ok" -> run' = [run EXCEPT !.pc = "command"]
         [] outcome = "raises" -> Exit(1)
         [] outcome = "interrupt" -> Exit(0)
    /\ Frame

\* app.run_command(args) at work: the command uses the store
CommandStep ==
    /\ run.pc = "command"
    /\ run.conn = "open"
    /\ \/ RecordSearch("YellowPages", "retail in Dayton, OH", 3)
       \/ RecordExport("csv", "out.csv", 3)
       \/ \E record \in InsertRecords : InsertCompany(record)

\* run_command returns, raises or is interrupted: the finally clause runs
\* app.close(), then the outer handlers pick the exit status
EndCommand(outcome) ==
    /\ run.pc = "command"
    /\ run' = [run EXCEPT !.pc = "exited",
                          !.conn = IF run.conn = "open" THEN "closed" ELSE run.conn,
                          !.exit = IF outcome = "raises" THEN 1 ELSE 0]
    /\ Frame

InitMain ==
    /\ run = [pc |-> "start", conn |-> "none", exit |-> 0]
    /\ click = NotRun
    /\ scrape = NotRun
    /\ companies = <<>>
    /\ search_history = <<>>
    /\ exports = <<>>
    /\ nextId = 1
    /\ cache = NoRows
    /\ now = 0
    /\ CACHE_ENABLED = TRUE
    /\ llm_calls = 0
    /\ rec = NoRows
    /\ company = None
    /\ scored = NoCall
    /\ current_year = 2026
    /\ last = NoCall

NextMain ==
    \/ \E outcome \in {"ok", "bad_arguments"} : ParseArgs(outcome)
    \/ \E outcome \in {"ok", "connect_raises", "script_raises"} : OpenDatabase(outcome)
    \/ \E outcome \in {"ok", "raises", "interrupt"} : Construct(outcome)
    \/ CommandStep
    \/ \E outcome \in {"returns", "raises", "interrupt"} : EndCommand(outcome)

SpecMain == InitMain /\ [][NextMain]_vars

-----------------------------------------------------------------------------
(* Claims about main(), checked under SpecMain *)

\* C21: when the process has exited, a connection that was opened has been
\* closed, whichever way main was left.
C21_ConnectionClosedAtExit ==
    run.pc = "exited" => run.conn # "open"

-----------------------------------------------------------------------------
(* Claims about the category and age signals, checked under SpecScore *)

\* the uncapped sum of a variant on a record
RawWith(variant, c, year) ==
    CASE variant = "Company.calculate_lead_score" -> CompanyRaw(c, year)
      [] variant = "BaseScraper.calculate_lead_score" -> BaseRaw(c, year)
      [] variant = "GoogleMapsScraper.calculate_lead_score" -> GoogleMapsRaw(c, year)
      [] variant = "AILeadFinder._calculate_lead_score" -> AILeadRaw(c, year)

\* C22: a record whose category matches several sector keywords ("industrial
\* warehouse" holds two of each variant's list) gets the same sum as the
\* record that differs only in a category matching exactly one
\* ("Manufacturing"), under every scoring variant.
C22_FirstCategoryMatchOnly ==
    (/\ scored.op # "none"
     /\ Get(rec, "category") = PyStr("industrial warehouse"))
    => RawWith(scored.op, rec, scored.year)
       = RawWith(scored.op, [rec EXCEPT !["category"] = PyStr("Manufacturing")], scored.year)

\* the variants that score the age of the building
AgeVariants ==
    {"Company.calculate_lead_score", "BaseScraper.calculate_lead_score",
     "AILeadFinder._calculate_lead_score"}

\* what the year_built of the scored record added to its sum
AgeIncrement ==
    RawWith(scored.op, rec, scored.year)
    - RawWith(scored.op, [rec EXCEPT !["year_built"] = PyStr("")], scored.year)

\* C26: for a numeric year_built and age = current year - year, the age adds
\* 20 when age > 30, 15 when 20 < age <= 30, 10 when 10 < age <= 20 and
\* nothing when age <= 10, in each variant that scores the age.
C26_AgeTiers ==
    (scored.op \in AgeVariants /\ ParseInt(rec["year_built"].v).ok)
    => LET age == scored.year - ParseInt(rec["year_built"].v).val
       IN  /\ age > 30 => AgeIncrement = 20
           /\ (20 < age /\ age <= 30) => AgeIncrement = 15
           /\ (10 < age /\ age <= 20) => AgeIncrement = 10
           /\ age <= 10 => AgeIncrement = 0

\* a variant scored a building of exactly 30 years and added 15
C26_Witness ==
    /\ scored.op \in AgeVariants
    /\ rec["year_built"] = PyStr("1996")
    /\ scored.year = 2026
    /\ AgeIncrement = 15

-----------------------------------------------------------------------------
(* Claims about update_company, checked under SpecStore *)

\* the positions of the rows whose id is company_id
RowsWithId(company_id) ==
    {i \in 1..Len(companies) : companies[i]["id"] = PyInt(company_id)}

\* C23: update_company(id, fields) changes exactly the named columns of the
\* row with that id and no other column or row, and returns True, when a row
\* has the id and the field set is not empty; otherwise it returns False and
\* leaves the table as it was.
C23_UpdateIsPatch ==
    [][last'.op = "update_company" =>
         IF RowsWithId(last'.id) # {} /\ DOMAIN last'.arg # {}
         THEN /\ last'.ret = PyBool(TRUE)
              /\ Len(companies') = Len(companies)
              /\ \A i \in 1..Len(companies) : \A c \in DOMAIN companies[i] :
                     companies'[i][c] =
                         IF i \in RowsWithId(last'.id) /\ c \in DOMAIN last'.arg
                         THEN last'.arg[c] ELSE companies[i][c]
         ELSE /\ last'.ret = PyBool(FALSE)
              /\ companies' = companies]_vars

\* an update changed the score of one of two rows and left the other's
C23_Witness ==
    /\ last.op = "update_company"
    /\ last.ret = PyBool(TRUE)
    /\ DOMAIN last.arg = {"lead_score"}
    /\ Len(companies) = 2
    /\ \E i, j \in 1..2 :
           /\ companies[i]["id"] = PyInt(last.id)
           /\ companies[i]["lead_score"] = PyInt(70)
           /\ companies[i]["name"] = PyStr("Acme")
           /\ companies[j]["id"] # PyInt(last.id)
           /\ companies[j]["lead_score"] # PyInt(70)

-----------------------------------------------------------------------------
(* LeadFinder.find_leads with details requested: one record found by a
   scraper goes through the steps of the method in their order *)

\* what the scrapers return for the search, before add_source_info
FoundRecords ==
    {[name |-> PyStr("Acme"), city |-> PyStr("Dayton"), website |-> PyStr("acme.test")],
     [name |-> PyStr("Bolt"), city |-> PyStr("Akron"), category |-> PyStr("warehouse"),
      phone |-> PyStr("555")],
     [name |-> PyStr("Core"), city |-> PyStr("Dayton"), lead_score |-> PyInt(60)]}

\* the companies table an earlier run left: empty, or holding Acme of Dayton
EarlierRows ==
    {<<>>,
     <<[c \in Columns \cup {"id"} |->
           CASE c = "id" -> PyInt(1)
             [] c = "name" -> PyStr("Acme")
             [] c = "city" -> PyStr("Dayton")
             [] c = "lead_score" -> PyInt(60)
             [] c = "scraped_at" -> PyInt(0)
             [] OTHER -> None]>>}

\* the statements of find_leads in order: the scraper's search_businesses
\* (which ends with add_source_info), insert_company, analyze_company and the
\* update guarded by company.get('id')
NextFindLeads ==
    \/ last.op = "none" /\ AddSourceInfo("YellowPagesScraper")
    \/ last.op = "add_source_info" /\ StoreRecord
    \/ last.op = "insert_company" /\ \E response \in Responses : AnalyzeCompany(response)
    \/ last.op = "analyze_company" /\ WriteBack

InitFindLeads ==
    /\ companies \in EarlierRows
    /\ nextId = Len(companies) + 1
    /\ search_history = <<>>
    /\ exports = <<>>
    /\ run = NotRun
    /\ click = NotRun
    /\ scrape = NotRun
    /\ cache = NoRows
    /\ now = 0
    /\ CACHE_ENABLED \in BOOLEAN
    /\ llm_calls = 0
    /\ rec \in FoundRecords
    /\ company = None
    /\ scored = NoCall
    /\ current_year = 2026
    /\ last = NoCall

SpecFindLeads == InitFindLeads /\ [][NextFindLeads]_vars

-----------------------------------------------------------------------------
(* Claims about find_leads, checked under SpecFindLeads *)

\* C24: when find_leads has finished with a record that analyze_company
\* enriched, the row stored for that company holds the record's ai_analysis
\* and lead_score.
C24_EnrichmentWrittenBack ==
    (/\ last.op \in {"update_company", "no_update"}
     /\ "ai_analysis" \in DOMAIN rec)
    => \E i \in 1..Len(companies) :
           /\ companies[i]["name"] = rec["name"]
           /\ companies[i]["city"] = rec["city"]
           /\ companies[i]["ai_analysis"] = rec["ai_analysis"]
           /\ companies[i]["lead_score"] = Get(rec, "lead_score")

-----------------------------------------------------------------------------
(* Claims about re-setting a cache key, checked under SpecCache *)

\* C25: with caching enabled, cache_set on a key leaves one entry for it,
\* created at the time of this set, and the other entries as they were; a
\* cache_get of an entry younger than CACHE_EXPIRY returns the value passed
\* to the latest cache_set of its key.
C25_ResetReplacesAndRestarts ==
    [][/\ (last'.op = "cache_set" /\ CACHE_ENABLED) =>
              /\ DOMAIN cache' = DOMAIN cache \cup {last'.key.v}
              /\ cache'[last'.key.v].created_at = now
              /\ \A k \in DOMAIN cache \ {last'.key.v} : cache'[k] = cache[k]
       /\ (/\ last'.op = "cache_get" /\ CACHE_ENABLED
           /\ last'.key.v \in DOMAIN cache
           /\ now < cache[last'.key.v].created_at + CACHE_EXPIRY) =>
              last'.ret = cache[last'.key.v].passed]_vars

-----------------------------------------------------------------------------
(* safe_click and the two search_businesses loops *)

\* max_attempts of safe_click
max_attempts == 3

\* the largest max_results asked for, the most elements one page lists, and
\* the most scrolls or page turns of one search
MaxResults == 3
MaxListed == 3
MaxMoves == 2

\* click.outcomes holds the outcome of every element.click() of the call in
\* flight, click.ret what the call returned (None while it runs)
SafeClick == [pc |-> "trying", outcomes |-> <<>>, ret |-> None]

\* a body of the loop that gives up one attempt late
ClickedOnceMore(call, outcome) ==
    LET attempt == Len(call.outcomes)
        made == Append(call.outcomes, outcome)
    IN  IF outcome = "clicked"
        THEN [pc |-> "done", outcomes |-> made, ret |-> PyBool(TRUE)]
        ELSE IF attempt = max_attempts
             THEN [pc |-> "done", outcomes |-> made, ret |-> PyBool(FALSE)]
             ELSE [pc |-> "trying", outcomes |-> made, ret |-> None]

\* one pass of the body of "for attempt in range(max_attempts)": the call
\* after element.click() returned ("clicked") or raised an Exception
Clicked(call, outcome) ==
    LET attempt == Len(call.outcomes)
        made == Append(call.outcomes, outcome)
    IN  IF outcome = "clicked"
        THEN [pc |-> "done", outcomes |-> made, ret |-> PyBool(TRUE)]
        ELSE IF attempt = max_attempts - 1
             THEN [pc |-> "done", outcomes |-> made, ret |-> PyBool(FALSE)]
             ELSE [pc |-> "trying", outcomes |-> made, ret |-> None]

\* safe_click: the next attempt of the call in flight
SafeClickAttempt(outcome) ==
    /\ click.pc = "trying"
    /\ Len(click.outcomes) < max_attempts
    /\ click' = Clicked(click, outcome)
    /\ UNCHANGED <<run, scrape, search_history, exports, companies, nextId, cache, now,
                   CACHE_ENABLED, llm_calls, rec, company, scored, current_year, last>>

\* what a search leaves alone besides scrape and click
ScrapeFrame == UNCHANGED <<run, search_history, exports, companies, nextId, cache, now,
                           CACHE_ENABLED, llm_calls, rec, company, scored,
                           current_year, last>>

\* the elements first .. first + listed - 1 of the page, in page order
Elements(first, listed) == [i \in 1..listed |-> first + i - 1]

\* result_elements[results_found:]
Slice(elements, start) == SubSeq(elements, start + 1, Len(elements))

\* "while results_found < max_results": find_elements and the start of the
\* for loop.  Google Maps takes the listed elements from index results_found
\* on, YellowPages every element of the page and stops on an empty page
WhileTest ==
    /\ scrape.pc = "while"
    /\ scrape' =
           IF scrape.results_found >= scrape.max_results
           THEN [scrape EXCEPT !.pc = "record"]
           ELSE IF scrape.site = "Google Maps"
                THEN [scrape EXCEPT !.pc = "for",
                                    !.queue = Slice(Elements(1, scrape.listed),
                                                    scrape.results_found)]
                ELSE IF scrape.listed = 0
                     THEN [scrape EXCEPT !.pc = "record"]
                     ELSE [scrape EXCEPT !.pc = "for",
                                         !.queue = Elements(scrape.first, scrape.listed)]
    /\ UNCHANGED click
    /\ ScrapeFrame

\* find_elements raises: the outer except returns what was collected
DriverRaises ==
    /\ scrape.pc = "while"
    /\ scrape' = [scrape EXCEPT !.pc = "returned", !.ret = scrape.companies]
    /\ UNCHANGED click
    /\ ScrapeFrame

\* a for loop without "if results_found >= max_results: break"
TakeElementPastLimit ==
    /\ scrape.pc = "for"
    /\ scrape.queue # <<>>
    /\ scrape' = [scrape EXCEPT !.pc = IF scrape.site = "Google Maps"
                                       THEN "click" ELSE "listing",
                                !.element = Head(scrape.queue),
                                !.queue = Tail(scrape.queue),
                                !.taken = Append(scrape.taken, Head(scrape.queue))]
    /\ click' = IF scrape.site = "Google Maps" THEN SafeClick ELSE click
    /\ ScrapeFrame

\* the next element of the for loop, past "if results_found >= max_results:
\* break"; Google Maps clicks it with safe_click
TakeElement ==
    /\ scrape.pc = "for"
    /\ scrape.queue # <<>>
    /\ scrape.results_found < scrape.max_results
    /\ scrape' = [scrape EXCEPT !.pc = IF scrape.site = "Google Maps"
                                       THEN "click" ELSE "listing",
                                !.element = Head(scrape.queue),
                                !.queue = Tail(scrape.queue),
                                !.taken = Append(scrape.taken, Head(scrape.queue))]
    /\ click' = IF scrape.site = "Google Maps" THEN SafeClick ELSE click
    /\ ScrapeFrame

\* the rest of the try block for the element: "named" appends the record
\* and counts it, "unnamed" and "raises" leave both alone.  Google Maps then
\* clicks the back button when there is one
Extract(outcome, back) ==
    /\ \/ scrape.pc = "click" /\ click.pc = "done"
       \/ scrape.pc = "listing" /\ ~back
    /\ scrape' =
           [scrape EXCEPT !.pc = IF back THEN "back" ELSE "for",
                          !.companies = IF outcome = "named"
                                        THEN Append(scrape.companies, scrape.element)
                                        ELSE scrape.companies,
                          !.results_found = IF outcome = "named"
                                            THEN scrape.results_found + 1
                                            ELSE scrape.results_found]
    /\ click' = IF back THEN SafeClick ELSE click
    /\ ScrapeFrame

\* safe_click on the back button returned
GoBack ==
    /\ scrape.pc = "back"
    /\ click.pc = "done"
    /\ scrape' = [scrape EXCEPT !.pc = "for"]
    /\ UNCHANGED click
    /\ ScrapeFrame

\* the for loop ends and "if results_found >= max_results: break"
EndFor ==
    /\ scrape.pc = "for"
    /\ scrape.queue = <<>> \/ scrape.results_found >= scrape.max_results
    /\ scrape' = [scrape EXCEPT !.pc = IF scrape.results_found >= scrape.max_results
                                       THEN "record" ELSE "move",
                                !.queue = <<>>]
    /\ UNCHANGED click
    /\ ScrapeFrame

\* Google Maps scrolls the list: the loop ends when the height is the old
\* one, otherwise the list holds more further elements
Scroll(grew, more) ==
    /\ scrape.pc = "move"
    /\ scrape.site = "Google Maps"
    /\ grew => scrape.moves < MaxMoves /\ scrape.listed + more <= MaxListed
    /\ ~grew => more = 0
    /\ scrape' = IF grew
                 THEN [scrape EXCEPT !.pc = "while", !.moves = scrape.moves + 1,
                                     !.listed = scrape.listed + more]
                 ELSE [scrape EXCEPT !.pc = "record"]
    /\ UNCHANGED click
    /\ ScrapeFrame

\* YellowPages looks for the next button: "next" clicks it with safe_click,
\* "last" (none, or disabled) and "raises" end the loop
NextPage(outcome) ==
    /\ scrape.pc = "move"
    /\ scrape.site = "YellowPages"
    /\ outcome = "next" => scrape.moves < MaxMoves
    /\ scrape' = [scrape EXCEPT !.pc = IF outcome = "next" THEN "turn" ELSE "record"]
    /\ click' = IF outcome = "next" THEN SafeClick ELSE click
    /\ ScrapeFrame

\* page += 1 and wait_for_element: the next page lists n new elements
TurnPage(n) ==
    /\ scrape.pc = "turn"
    /\ click.pc = "done"
    /\ scrape' = [scrape EXCEPT !.pc = "while", !.moves = scrape.moves + 1,
                                !.first = scrape.first + scrape.listed,
                                !.listed = n]
    /\ UNCHANGED click
    /\ ScrapeFrame

\* self.db.record_search(source, query, len(companies)); return companies
RecordAndReturn ==
    /\ scrape.pc = "record"
    /\ search_history' =
           AppendRow(search_history,
                     [id |-> Len(search_history) + 1, search_type |-> scrape.site,
                      search_term |-> "roofing in Dayton, OH",
                      results_count |-> Len(scrape.companies),
                      searched_at |-> now])
    /\ scrape' = [scrape EXCEPT !.pc = "returned", !.ret = scrape.companies]
    /\ last' = [op |-> "search_businesses", ret |-> PyList(scrape.companies)]
    /\ UNCHANGED <<run, click, exports, companies, nextId, cache, now, CACHE_ENABLED,
                   llm_calls, rec, company, scored, current_year>>

\* search_businesses(city, state, category, max_results) of either scraper
\* on a first page of any length, up to the while loop
InitScrape ==
    /\ companies = <<>> /\ nextId = 1
    /\ cache = NoRows
    /\ now = 0
    /\ CACHE_ENABLED = TRUE
    /\ llm_calls = 0
    /\ rec = NoRows /\ company = None
    /\ scored = NoCall
    /\ current_year = 2026
    /\ search_history = <<>> /\ exports = <<>>
    /\ run = NotRun
    /\ click = NotRun
    /\ \E site \in {"Google Maps", "YellowPages"}, max_results \in 0..MaxResults,
          listed \in 0..MaxListed :
           scrape = [pc |-> "while", site |-> site, max_results |-> max_results,
                     results_found |-> 0, companies |-> <<>>, first |-> 1,
                     listed |-> listed, queue |-> <<>>, element |-> 0,
                     taken |-> <<>>, moves |-> 0, ret |-> <<>>]
    /\ last = NoCall

NextScrape ==
    \/ WhileTest
    \/ DriverRaises
    \/ TakeElement
    \/ \E outcome \in {"clicked", "raises"} : SafeClickAttempt(outcome)
    \/ \E outcome \in {"named", "unnamed", "raises"}, back \in BOOLEAN :
           Extract(outcome, back)
    \/ GoBack
    \/ EndFor
    \/ \E grew \in BOOLEAN, more \in 0..MaxListed : Scroll(grew, more)
    \/ \E outcome \in {"next", "last", "raises"} : NextPage(outcome)
    \/ \E n \in 0..MaxListed : TurnPage(n)
    \/ RecordAndReturn

SpecScrape == InitScrape /\ [][NextScrape]_vars

\* C27: safe_click ends without raising after at most 3 attempts: a call in
\* flight has made fewer than 3 attempts and all of them failed; a call that
\* returned True made its only successful attempt last, and a call that
\* returned False made exactly 3 attempts and all of them failed.
C27_SafeClickBounded ==
    click.pc # "none" =>
        /\ click.pc \in {"trying", "done"}
        /\ Len(click.outcomes) <= 3
        /\ \A i \in 1..(Len(click.outcomes) - 1) : click.outcomes[i] = "raises"
        /\ click.pc = "trying" =>
               /\ Len(click.outcomes) < 3
               /\ \A i \in 1..Len(click.outcomes) : click.outcomes[i] = "raises"
               /\ click.ret = None
        /\ click.pc = "done" =>
               /\ Len(click.outcomes) >= 1
               /\ click.ret \in {PyBool(TRUE), PyBool(FALSE)}
               /\ click.ret = PyBool(TRUE) <=>
                      click.outcomes[Len(click.outcomes)] = "clicked"
               /\ click.ret = PyBool(FALSE) <=>
                      click.outcomes = <<"raises", "raises", "raises">>

\* a call returned False after three failures
C27_Witness ==
    /\ click.pc = "done"
    /\ click.ret = PyBool(FALSE)
    /\ Len(click.outcomes) = 3

\* C28: count_companies(filters) is the number of rows get_companies(filters)
\* returns with offset 0 and a limit no smaller than the table, for every
\* filter mapping, those with the id or name keys included.
C28_CountEqualsGet ==
    last.op = "count_companies" =>
        \A p \in SelectOrders(last.filters) : last.ret = PyInt(Len(p))

\* C29: GoogleMapsScraper.search_businesses takes each listed result element
\* at most once per search: no element appears twice among the elements it
\* clicked, whatever elements yielded no name or raised.
C29_ElementTakenOnce ==
    (scrape.pc # "none" /\ scrape.site = "Google Maps") =>
        \A i, j \in 1..Len(scrape.taken) :
            i # j => scrape.taken[i] # scrape.taken[j]

\* C30: in both scrapers the number of collected records equals results_found
\* and never passes max_results, at every point of the loop and in the list
\* returned.
C30_NeverMoreThanMaxResults ==
    scrape.pc # "none" =>
        /\ Len(scrape.companies) = scrape.results_found
        /\ scrape.results_found <= scrape.max_results
        /\ scrape.pc = "returned" =>
               /\ scrape.ret = scrape.companies
               /\ Len(scrape.ret) <= scrape.max_results

\* a search returned max_results records from a page holding more elements,
\* after an element that was not counted
C30_Witness ==
    /\ scrape.pc = "returned"
    /\ scrape.max_results > 0
    /\ Len(scrape.ret) = scrape.max_results
    /\ Len(scrape.taken) > Len(scrape.ret)
    /\ scrape.listed > Len(scrape.taken)

=============================================================================
